---- MODULE Spec2Model ----
(***************************************************************************)
(* A model of the core of the aria virtual machine (vm-lib): the symbol    *)
(* interner, the shapes registry, attribute boxes and the values that own  *)
(* them, and the slot reads used by inline caches.                         *)
(***************************************************************************)
EXTENDS Integers, Sequences, FiniteSets, TLC

VARIABLES
    map,        \* Interner.map: string -> Symbol
    strings,    \* Interner.strings: Symbol -> string (0-based id k at index k+1)
    icall,      \* the last Interner call: [op, arg, sym, ret]
    issued,     \* every <<string, symbol>> pair intern has returned so far
    shapes,     \* Shapes.shapes: the registry, ShapeId k at index k+1
    boxes,      \* every ObjectBox: [shape, slots]
    written,    \* per box, the attribute names written to it, in order
    sidecar,    \* the ReadAttributeSidecar of one ReadAttributeSymbol site
    lastWrite,  \* the last write_attribute call: [done, recv, sym, val]
    lastTrans,  \* the last Shapes::transition call and what it returned
    lastRead,   \* the last RuntimeValue::read_slot call: [done, recv, cached, uncached]
    disp,       \* the last binary operator dispatch: operands, reads, calls, outcome
    eqc,        \* the last RuntimeValue::equals call: operands, reads, calls, result
    rtErrArgc,  \* the value RuntimeError holds under the name ArgcMismatch
    exc,        \* the current VmException: [value, backtrace]
    excCall,    \* the last call that made or changed it: [op, err, ok, ret, argc]
    frames,     \* the call stack, innermost frame last: [pc, stack, tries]
    vmstate,    \* [status, exc]: running, unwinding, uncaught or vm_error
    vmop,       \* the instruction executed last
    steps,      \* the number of instructions executed
    mods,       \* per module, RuntimeModuleImpl.values: name -> NamedValue [val, ty]
    modCall,    \* the last module operation: [op, mod, src, name, ok, err]
    rdr,        \* the BytecodeReader: [data, idx]
    dec,        \* the last read_opcode: [ok, err, tag, val, op, start]
    decoded,    \* the decode loop of the loader: [opcodes, status]
    cmod,       \* the CompiledModule given to the last RuntimeModuleImpl::new: [entry, constants]
    rmod,       \* what it returned: [status, entry, constants]
    uw,         \* the run of a compiled `left ?? right`: [block, idx, stack, base, left, right, rightRan, atRight]
    site,       \* the ReadAttributeSymbol site: [misses, megamorphic, total, kind, recv, value]
    mshapes,    \* the Shapes registry the member tables of the mixin model share
    entries,    \* per mixin and enum, its member table: an ObjectBox [shape, slots]
    includes,   \* per mixin and enum, MixinIncluder.mixins: the included mixins, in order
    mwrites,    \* the number of writes to member tables so far
    cshapes,    \* the Shapes registry the case shapes of the enum model share
    enums,      \* per enum, EnumImpl: [case_shape, cases]
    added,      \* per enum, the case names add_case was called with, in order
    ecall       \* the last call on an enum: [op, enumm, name, cidx, payload, some, val]

internerVars == <<map, strings, icall, issued>>
objectVars == <<shapes, boxes, written, sidecar, lastWrite, lastTrans, lastRead>>
excVars == <<rtErrArgc, exc, excCall>>
vmVars == <<frames, vmstate, vmop, steps>>
\* The variables of the module, reader, loader, expression, site, mixin and
\* enum models, and for each of them the variables its actions leave unchanged.
modVars == <<mods, modCall>>
decVars == <<rdr, dec, decoded>>
loadVars == <<cmod, rmod>>
unwrapVars == <<uw>>
siteVars == <<site>>
mixinVars == <<mshapes, entries, includes, mwrites>>
enumVars == <<cshapes, enums, added, ecall>>
lateVars == <<modVars, decVars, loadVars, unwrapVars, siteVars, mixinVars, enumVars>>
oldVars == <<internerVars, objectVars, disp, eqc, excVars, vmVars>>
modRest == <<oldVars, decVars, loadVars, unwrapVars, siteVars, mixinVars, enumVars>>
modOthers == <<decVars, loadVars, unwrapVars, siteVars, mixinVars, enumVars>>
decRest == <<oldVars, modVars, loadVars, unwrapVars, siteVars, mixinVars, enumVars>>
decOthers == <<modVars, loadVars, unwrapVars, siteVars, mixinVars, enumVars>>
loadRest == <<oldVars, modVars, decVars, unwrapVars, siteVars, mixinVars, enumVars>>
loadOthers == <<modVars, decVars, unwrapVars, siteVars, mixinVars, enumVars>>
unwrapRest == <<oldVars, modVars, decVars, loadVars, siteVars, mixinVars, enumVars>>
unwrapOthers == <<modVars, decVars, loadVars, siteVars, mixinVars, enumVars>>
siteRest == <<oldVars, modVars, decVars, loadVars, unwrapVars, mixinVars, enumVars>>
siteOthers == <<modVars, decVars, loadVars, unwrapVars, mixinVars, enumVars>>
mixinRest == <<oldVars, modVars, decVars, loadVars, unwrapVars, siteVars, enumVars>>
mixinOthers == <<modVars, decVars, loadVars, unwrapVars, siteVars, enumVars>>
enumRest == <<oldVars, modVars, decVars, loadVars, unwrapVars, siteVars, mixinVars>>
enumOthers == <<modVars, decVars, loadVars, unwrapVars, siteVars, mixinVars>>
opVars == <<disp, eqc, rtErrArgc, exc, excCall, frames, vmstate, vmop, steps, lateVars>>
vars == <<map, strings, icall, issued, shapes, boxes, written, sidecar,
          lastWrite, lastTrans, lastRead, disp, eqc, rtErrArgc, exc, excCall,
          frames, vmstate, vmop, steps, lateVars>>

Range(f) == {f[x] : x \in DOMAIN f}

\* FxHashMap::insert: the new entry replaces an old one for the same key.
Insert(m, k, v) == (k :> v) @@ m

EmptyMap == [x \in {} |-> 0]

\* Option<u32>.
NoneInt == [some |-> FALSE, v |-> 0]
SomeInt(x) == [some |-> TRUE, v |-> x]

(***************************************************************************)
(* symbol.rs: the interner                                                 *)
(***************************************************************************)

\* The number of symbols one Interner may hold; stands for u32::MAX.
MaxSymbols == 44

\* The names Interner::default interns, in order.
WellKnownNames ==
    <<"_op_impl_call", "_op_impl_equals", "_op_impl_read_index",
      "_op_impl_write_index", "_op_impl_add", "_op_impl_radd", "_op_impl_sub",
      "_op_impl_rsub", "_op_impl_mul", "_op_impl_rmul", "_op_impl_div",
      "_op_impl_rdiv", "_op_impl_rem", "_op_impl_rrem", "_op_impl_lshift",
      "_op_impl_rlshift", "_op_impl_rshift", "_op_impl_rrshift",
      "_op_impl_bwand", "_op_impl_rbwand", "_op_impl_bwor", "_op_impl_rbwor",
      "_op_impl_xor", "_op_impl_rxor", "_op_impl_lt", "_op_impl_gt",
      "_op_impl_lteq", "_op_impl_gteq", "_op_impl_neg", "prettyprint",
      "backtrace", "__impl", "next", "msg", "ArgcMismatch", "stdout", "stderr",
      "expected", "actual", "Varargs", "Bounded">>

\* The strings a program interns: new names and two already interned ones.
NewNames == {"a", "b", "c", "d"}
Names == NewNames \cup {"msg", "next"}

\* Variants of Interner::intern with one slip each (fault injection for the
\* properties of the interner):
\*   "no_dedup" a string already in the map is interned again;
\*   "evict"    at the bound, the newest symbol is retired and reissued;
\*   "past"     the bound is tested with > instead of >=.
intern_variant(in, s, bug) ==
    IF bug # "no_dedup" /\ s \in DOMAIN in.map
    THEN [in |-> in, ok |-> TRUE, sym |-> in.map[s]]
    ELSE LET id == Len(in.strings) IN
         IF id >= MaxSymbols + (IF bug = "past" THEN 1 ELSE 0)
         THEN IF bug = "evict"
              THEN LET old == in.strings[id] IN
                   [in |-> [map |-> Insert([x \in (DOMAIN in.map) \ {old} |-> in.map[x]],
                                           s, id - 1),
                            strings |-> [in.strings EXCEPT ![id] = s]],
                    ok |-> TRUE, sym |-> id - 1]
              ELSE [in |-> in, ok |-> FALSE, sym |-> 0]
         ELSE [in |-> [map |-> Insert(in.map, s, id),
                       strings |-> Append(in.strings, s)],
               ok |-> TRUE, sym |-> id]

intern_no_dedup(in, s) == intern_variant(in, s, "no_dedup")
intern_evict(in, s) == intern_variant(in, s, "evict")
intern_past_bound(in, s) == intern_variant(in, s, "past")

\* Interner::intern on the interner [map, strings]: the interner after the
\* call and the Result (ok = FALSE is Err(TooManySymbols)).
intern(in, s) ==
    IF s \in DOMAIN in.map
    THEN [in |-> in, ok |-> TRUE, sym |-> in.map[s]]
    ELSE LET id == Len(in.strings) IN
         IF id >= MaxSymbols
         THEN [in |-> in, ok |-> FALSE, sym |-> 0]
         ELSE [in |-> [map |-> Insert(in.map, s, id),
                       strings |-> Append(in.strings, s)],
               ok |-> TRUE, sym |-> id]

\* Interner::lookup.
lookup(in, s) == IF s \in DOMAIN in.map THEN SomeInt(in.map[s]) ELSE NoneInt

\* Interner::resolve: None is the empty string's absence, modelled as "".
resolve(in, sym) ==
    IF sym + 1 \in DOMAIN in.strings
    THEN [some |-> TRUE, v |-> in.strings[sym + 1]]
    ELSE [some |-> FALSE, v |-> ""]

RECURSIVE InternAll(_, _, _)
InternAll(in, names, i) ==
    IF i > Len(names) THEN in
    ELSE LET r == intern(in, names[i]) IN
         IF r.ok THEN InternAll(r.in, names, i + 1) ELSE in

\* An interner that is constructed without the well-known names.
InternerEmpty == [map |-> EmptyMap, strings |-> <<>>]

\* Interner::default: an empty interner that then interns the well-known names.
InternerDefault ==
    InternAll([map |-> EmptyMap, strings |-> <<>>], WellKnownNames, 1)

Interner == [map |-> map, strings |-> strings]

InitInterner ==
    /\ map = InternerDefault.map
    /\ strings = InternerDefault.strings
    /\ icall = [op |-> "new", arg |-> "", sym |-> 0, ok |-> TRUE, ret |-> ""]
    /\ issued = {}

Intern(s) ==
    LET r == intern(Interner, s) IN
    /\ map' = r.in.map
    /\ strings' = r.in.strings
    /\ icall' = [op |-> "intern", arg |-> s, sym |-> r.sym, ok |-> r.ok, ret |-> ""]
    /\ issued' = IF r.ok THEN issued \cup {<<s, r.sym>>} ELSE issued

Lookup(s) ==
    LET r == lookup(Interner, s) IN
    /\ icall' = [op |-> "lookup", arg |-> s, sym |-> r.v, ok |-> r.some, ret |-> ""]
    /\ UNCHANGED <<map, strings, issued>>

Resolve(sym) ==
    LET r == resolve(Interner, sym) IN
    /\ icall' = [op |-> "resolve", arg |-> "", sym |-> sym, ok |-> r.some, ret |-> r.v]
    /\ UNCHANGED <<map, strings, issued>>

(***************************************************************************)
(* shape.rs: the shapes registry                                           *)
(***************************************************************************)

INTERNED_ATTR_NEXT == 32
INTERNED_ATTR_MSG == 33

\* The attribute names programs of the model use.
Syms == {INTERNED_ATTR_MSG, INTERNED_ATTR_NEXT}

\* Shapes::EMPTY_SHAPE_INDEX.
EMPTY_SHAPE_INDEX == 0

\* Shape::empty.
EmptyShape ==
    [id |-> EMPTY_SHAPE_INDEX, slots |-> EmptyMap, reverse_slots |-> <<>>,
     transitions |-> EmptyMap]

\* Shapes::default.
ShapesDefault == <<EmptyShape>>

\* Shapes::get_shape / self.shapes[sid]: ShapeId k is the k-th element, 0-based.
ShapeAt(shs, sid) == shs[sid + 1]

ShapeIds(shs) == 0 .. (Len(shs) - 1)

\* Variants of Shapes::transition with one slip each (fault injection for the
\* properties of the registry):
\*   "no_lookup"   the parent's transition map is never consulted;
\*   "no_slot"     a name already on the shape is not recognised;
\*   "slot_is_sid" the new slot id is taken from the registry's length;
\*   "prepend"     the new name is put in front of the reverse list;
\*   "no_clone"    the parent's slot map and reverse list are extended in place.
transition_variant(shs, cur_sid, name, bug) ==
    LET cur_shape == shs[cur_sid + 1] IN
    IF bug # "no_slot" /\ name \in DOMAIN cur_shape.slots
    THEN [shapes |-> shs, sid |-> cur_sid, slot |-> cur_shape.slots[name],
          how |-> "slot"]
    ELSE IF bug # "no_lookup" /\ name \in DOMAIN cur_shape.transitions
    THEN LET next_sid == cur_shape.transitions[name] IN
         [shapes |-> shs, sid |-> next_sid,
          slot |-> shs[next_sid + 1].slots[name], how |-> "cached"]
    ELSE LET new_slot_id == IF bug = "slot_is_sid" THEN Len(shs)
                            ELSE Cardinality(DOMAIN cur_shape.slots)
             new_sid == Len(shs)
             new_slots == Insert(cur_shape.slots, name, new_slot_id)
             new_reverse == IF bug = "prepend"
                            THEN <<name>> \o cur_shape.reverse_slots
                            ELSE Append(cur_shape.reverse_slots, name)
             new_shape == [id |-> new_sid, slots |-> new_slots,
                           reverse_slots |-> new_reverse,
                           transitions |-> EmptyMap]
             parent == [id |-> cur_shape.id,
                        slots |-> IF bug = "no_clone" THEN new_slots
                                  ELSE cur_shape.slots,
                        reverse_slots |-> IF bug = "no_clone" THEN new_reverse
                                          ELSE cur_shape.reverse_slots,
                        transitions |-> Insert(cur_shape.transitions, name, new_sid)]
             pushed == Append(shs, new_shape) IN
         [shapes |-> [pushed EXCEPT ![cur_sid + 1] = parent],
          sid |-> new_sid, slot |-> new_slot_id, how |-> "minted"]

transition_no_lookup(shs, cur_sid, name) ==
    transition_variant(shs, cur_sid, name, "no_lookup")
transition_no_slot(shs, cur_sid, name) ==
    transition_variant(shs, cur_sid, name, "no_slot")
transition_slot_is_sid(shs, cur_sid, name) ==
    transition_variant(shs, cur_sid, name, "slot_is_sid")
transition_prepend(shs, cur_sid, name) ==
    transition_variant(shs, cur_sid, name, "prepend")
transition_no_clone(shs, cur_sid, name) ==
    transition_variant(shs, cur_sid, name, "no_clone")

\* Shapes::transition: the registry after the call and the (ShapeId, SlotId)
\* it returns; how is "slot" (name already on the shape), "cached" (the
\* parent's transition map has it), "minted" (a new shape was pushed) or
\* "panic" (the assert_eq! on the reverse list's length fails).
transition(shs, cur_sid, name) ==
    LET cur_shape == ShapeAt(shs, cur_sid) IN
    IF name \in DOMAIN cur_shape.slots
    THEN [shapes |-> shs, sid |-> cur_sid, slot |-> cur_shape.slots[name],
          how |-> "slot"]
    ELSE IF name \in DOMAIN cur_shape.transitions
    THEN LET next_sid == cur_shape.transitions[name] IN
         [shapes |-> shs, sid |-> next_sid,
          slot |-> ShapeAt(shs, next_sid).slots[name], how |-> "cached"]
    ELSE IF Len(cur_shape.reverse_slots) # Cardinality(DOMAIN cur_shape.slots)
    THEN [shapes |-> shs, sid |-> cur_sid, slot |-> 0, how |-> "panic"]
    ELSE LET new_slot_id == Cardinality(DOMAIN cur_shape.slots)
             new_sid == Len(shs)
             new_shape == [id |-> new_sid,
                           slots |-> Insert(cur_shape.slots, name, new_slot_id),
                           reverse_slots |-> Append(cur_shape.reverse_slots, name),
                           transitions |-> EmptyMap]
             pushed == Append(shs, new_shape) IN
         [shapes |-> [pushed EXCEPT ![cur_sid + 1].transitions =
                          Insert(cur_shape.transitions, name, new_sid)],
          sid |-> new_sid, slot |-> new_slot_id, how |-> "minted"]

\* Shapes::resolve_slot.
resolve_slot(shs, sid, name) ==
    IF sid \in ShapeIds(shs) /\ name \in DOMAIN ShapeAt(shs, sid).slots
    THEN SomeInt(ShapeAt(shs, sid).slots[name])
    ELSE NoneInt

\* Shapes::resolve_symbol.
resolve_symbol(shs, sid, slot_id) ==
    IF sid \in ShapeIds(shs) /\ slot_id + 1 \in DOMAIN ShapeAt(shs, sid).reverse_slots
    THEN SomeInt(ShapeAt(shs, sid).reverse_slots[slot_id + 1])
    ELSE NoneInt

(***************************************************************************)
(* runtime_value: values, attribute boxes and the values that own them     *)
(***************************************************************************)

\* A RuntimeValue is a triple of strings <<variant, a, b>>.
IntegerVal(n) == <<"Integer", n, "">>
FunctionVal(k) == <<"Function", k, "">>
\* Option::None and Err(AttributeError) as results of the reads.
None == <<"None", "", "">>
Err(e) == <<"Err", e, "">>

\* FunctionAttribute::is_type_method of a function value.
is_type_method(f) == f[2] = "type"

\* The values programs of the model store: two integers, an instance method
\* and a type method.
DataVals == {IntegerVal("1"), IntegerVal("2")}
FuncVals == {FunctionVal("instance"), FunctionVal("type")}
Vals == DataVals \cup FuncVals

\* The values of the model that have an attribute store, each with its one
\* ObjectBox: two objects of struct S, the struct type S (its member table),
\* an Integer, a List, a Mixin and a Function.
Objects == {"o1", "o2"}
Receivers == Objects \cup {"S", "n", "l", "M", "f"}

Variant(r) ==
    CASE r \in Objects -> "Object"
      [] r = "S" -> "Type"
      [] r = "n" -> "Integer"
      [] r \in {"x1", "x2"} -> "Float"
      [] r = "l" -> "List"
      [] r = "M" -> "Mixin"
      [] r = "f" -> "Function"
      [] r = "bf" -> "BoundFunction"
      [] r = "co" -> "CodeObject"
      [] r = "op" -> "Opaque"
      [] r = "tc" -> "TypeCheck"
      [] OTHER -> "EnumValue"

\* Object::get_struct: every object of the model is an instance of S.
get_struct(o) == "S"

\* RuntimeValue::bind with a slip: the function is bound to the struct of the
\* receiver.
bind_to_struct(self, f) == <<"BoundFunction", f[2], get_struct(self)>>

\* RuntimeValue::bind: BoundFunction{receiver, function}.
bind(self, f) == <<"BoundFunction", f[2], self>>

\* val_or_bound_func!
val_or_bound_func(val, self) ==
    IF val[1] = "Function"
    THEN IF is_type_method(val) THEN Err("InvalidFunctionBinding") ELSE bind(self, val)
    ELSE val

\* ObjectBox::default.
ObjectBoxDefault == [shape |-> EMPTY_SHAPE_INDEX, slots |-> <<>>]

\* ObjectBox::write with a slip: a write to a slot the box already has keeps
\* the old value.
ObjectBox_write_keeps_old(shs, box, name, val) ==
    LET t == transition(shs, box.shape, name)
        slot_count == Len(box.slots) IN
    IF t.slot = slot_count
    THEN [shapes |-> t.shapes,
          box |-> [shape |-> t.sid, slots |-> Append(box.slots, val)],
          panic |-> FALSE, t |-> t]
    ELSE [shapes |-> t.shapes, box |-> [box EXCEPT !.shape = t.sid],
          panic |-> FALSE, t |-> t]

\* ObjectBox::write with a slip: the box keeps the shape it had.
ObjectBox_write_stale_shape(shs, box, name, val) ==
    LET t == transition(shs, box.shape, name)
        slot_count == Len(box.slots) IN
    IF t.slot = slot_count
    THEN [shapes |-> t.shapes, box |-> [box EXCEPT !.slots = Append(box.slots, val)],
          panic |-> FALSE, t |-> t]
    ELSE IF t.slot < slot_count
    THEN [shapes |-> t.shapes, box |-> [box EXCEPT !.slots[t.slot + 1] = val],
          panic |-> FALSE, t |-> t]
    ELSE [shapes |-> t.shapes, box |-> box, panic |-> TRUE, t |-> t]

\* ObjectBox::write: the registry and the box after the call; panic is the
\* "slots should grow sequentially" branch (or a panic inside transition).
ObjectBox_write(shs, box, name, val) ==
    LET t == transition(shs, box.shape, name)
        slot_count == Len(box.slots) IN
    IF t.how = "panic"
    THEN [shapes |-> shs, box |-> box, panic |-> TRUE, t |-> t]
    ELSE IF t.slot = slot_count
    THEN [shapes |-> t.shapes,
          box |-> [shape |-> t.sid, slots |-> Append(box.slots, val)],
          panic |-> FALSE, t |-> t]
    ELSE IF t.slot < slot_count
    THEN [shapes |-> t.shapes,
          box |-> [shape |-> t.sid, slots |-> [box.slots EXCEPT ![t.slot + 1] = val]],
          panic |-> FALSE, t |-> t]
    ELSE [shapes |-> t.shapes, box |-> [box EXCEPT !.shape = t.sid],
          panic |-> TRUE, t |-> t]

\* Vec::get(slot_id).cloned().
SlotGet(box, slot_id) ==
    IF slot_id + 1 \in DOMAIN box.slots THEN box.slots[slot_id + 1] ELSE None

\* ObjectBox::read.
ObjectBox_read(shs, box, name) ==
    LET slot_id == resolve_slot(shs, box.shape, name) IN
    IF ~slot_id.some THEN None ELSE SlotGet(box, slot_id.v)

\* ObjectBox::read_slot.
ObjectBox_read_slot(box, slot_id, sid) ==
    IF box.shape # sid THEN None ELSE SlotGet(box, slot_id)

\* ObjectBox::resolve_to_slot: Option<(RuntimeValue, ShapeId, SlotId)>.
NoneSlot == [some |-> FALSE, val |-> None, sid |-> 0, slot |-> 0]
ObjectBox_resolve_to_slot(shs, box, name) ==
    LET sid == box.shape
        slot_id == resolve_slot(shs, sid, name) IN
    IF ~slot_id.some THEN NoneSlot
    ELSE IF SlotGet(box, slot_id.v) = None THEN NoneSlot
    ELSE [some |-> TRUE, val |-> SlotGet(box, slot_id.v), sid |-> sid,
          slot |-> slot_id.v]

\* Struct::load_named_value: the struct's member table (S includes no mixin).
Struct_load_named_value(shs, bxs, st, name) == ObjectBox_read(shs, bxs[st], name)

\* Struct::read_slot: a slot read of the struct's member table.
Struct_read_slot(bxs, st, slot_id, sid) == ObjectBox_read_slot(bxs[st], slot_id, sid)

\* Struct::resolve_to_slot: resolves the name in the struct's member table.
Struct_resolve_to_slot(shs, bxs, st, name) ==
    ObjectBox_resolve_to_slot(shs, bxs[st], name)

\* RuntimeValue::get_attribute_store: the box of a value, for the variants
\* that have one.
has_attribute_store(r) ==
    Variant(r) \in {"Object", "Type", "Integer", "List", "Mixin", "Function"}

\* AttributeError::to_vm_error_reason: the VmErrorReason and, for
\* NoSuchIdentifier, the name it carries (0 for the reasons without a name).
AttributeError_to_vm_error_reason(e, name) ==
    CASE e = "NoSuchAttribute" -> <<"NoSuchIdentifier", name>>
      [] e = "InvalidFunctionBinding" -> <<"InvalidBinding", 0>>
      [] e = "ValueHasNoAttributes" -> <<"UnexpectedType", 0>>

\* RuntimeValue::write_attribute with a slip: a write to a bound function
\* lands in the attribute store of its receiver.
write_attribute_to_receiver(shs, bxs, r, attrib_sym, val) ==
    LET tgt == IF has_attribute_store(r) THEN r ELSE "o1"
        w == ObjectBox_write(shs, bxs[tgt], attrib_sym, val) IN
    [shapes |-> w.shapes, boxes |-> [bxs EXCEPT ![tgt] = w.box],
     ok |-> has_attribute_store(r), panic |-> w.panic, t |-> w.t]

\* RuntimeValue::write_attribute with a slip: the slot vector is shared by the
\* boxes of one shape, so the write lands in every box that has the shape of
\* the receiver's.
write_attribute_shared_slots(shs, bxs, r, attrib_sym, val) ==
    LET w == ObjectBox_write(shs, bxs[r], attrib_sym, val) IN
    [shapes |-> w.shapes,
     boxes |-> [b \in DOMAIN bxs |->
                   IF bxs[b].shape = bxs[r].shape THEN w.box ELSE bxs[b]],
     ok |-> TRUE, panic |-> w.panic, t |-> w.t]

\* RuntimeValue::write_attribute (no receiver of the model is a module).
write_attribute(shs, bxs, r, attrib_sym, val) ==
    IF has_attribute_store(r)
    THEN LET w == ObjectBox_write(shs, bxs[r], attrib_sym, val) IN
         [shapes |-> w.shapes, boxes |-> [bxs EXCEPT ![r] = w.box],
          ok |-> TRUE, panic |-> w.panic, t |-> w.t]
    ELSE [shapes |-> shs, boxes |-> bxs, ok |-> FALSE, panic |-> FALSE,
          t |-> [shapes |-> shs, sid |-> 0, slot |-> 0, how |-> "none"]]

\* RuntimeValue::read_slot.
read_slot(bxs, r, slot_id, sid) ==
    IF Variant(r) = "Object"
    THEN LET own == ObjectBox_read_slot(bxs[r], slot_id, sid) IN
         IF own # None THEN own
         ELSE LET sv == Struct_read_slot(bxs, get_struct(r), slot_id, sid) IN
              IF sv = None THEN None
              ELSE LET b == val_or_bound_func(sv, r) IN
                   IF b[1] = "Err" THEN None ELSE b
    ELSE None

\* RuntimeValue::resolve_to_slot.
resolve_to_slot(shs, bxs, r, name) ==
    IF Variant(r) = "Object"
    THEN LET own == ObjectBox_resolve_to_slot(shs, bxs[r], name) IN
         IF own.some THEN own
         ELSE LET val == Struct_resolve_to_slot(shs, bxs, get_struct(r), name) IN
              IF ~val.some THEN NoneSlot
              ELSE LET b == val_or_bound_func(val.val, r) IN
                   IF b[1] = "Err" THEN NoneSlot
                   ELSE [some |-> TRUE, val |-> b, sid |-> val.sid, slot |-> val.slot]
    ELSE NoneSlot

\* Function::read: a read of the function's attribute store.
Function_read(shs, bxs, f, name) == ObjectBox_read(shs, bxs[f], name)

\* Type::read_attribute for the struct type S: its member table.
Type_read_attribute(shs, bxs, t, name) ==
    LET v == Struct_load_named_value(shs, bxs, t, name) IN
    IF v = None THEN Err("NoSuchAttribute") ELSE v

\* RuntimeValue::read_attribute with a slip: the member table of an object's
\* struct is consulted before the object's own slots.
read_attribute_struct_first(shs, bxs, r, attrib_sym) ==
    IF Variant(r) = "Object"
    THEN LET sv == Struct_load_named_value(shs, bxs, get_struct(r), attrib_sym) IN
         IF sv # None THEN val_or_bound_func(sv, r)
         ELSE LET own == ObjectBox_read(shs, bxs[r], attrib_sym) IN
              IF own # None THEN own ELSE Err("NoSuchAttribute")
    ELSE Err("ValueHasNoAttributes")

\* RuntimeValue::read_attribute: Ok(v) is v, Err(e) is Err(e).  The built-in
\* types Int and List of the model have no member of these names.
read_attribute(shs, bxs, r, attrib_sym) ==
    CASE Variant(r) = "Object" ->
           LET own == ObjectBox_read(shs, bxs[r], attrib_sym) IN
           IF own # None THEN own
           ELSE LET sv == Struct_load_named_value(shs, bxs, get_struct(r), attrib_sym) IN
                IF sv # None THEN val_or_bound_func(sv, r)
                ELSE Err("NoSuchAttribute")
      [] Variant(r) = "Mixin" ->
           LET v == ObjectBox_read(shs, bxs[r], attrib_sym) IN
           IF v # None THEN v ELSE Err("NoSuchAttribute")
      [] Variant(r) = "Integer" ->
           LET v == ObjectBox_read(shs, bxs[r], attrib_sym) IN
           IF v # None THEN val_or_bound_func(v, r) ELSE Err("NoSuchAttribute")
      [] Variant(r) = "Function" ->
           LET v == Function_read(shs, bxs, r, attrib_sym) IN
           IF v # None THEN v ELSE Err("NoSuchAttribute")
      [] Variant(r) = "List" ->
           LET v == ObjectBox_read(shs, bxs[r], attrib_sym) IN
           IF v # None THEN v ELSE Err("NoSuchAttribute")
      [] Variant(r) = "Type" ->
           LET val == Type_read_attribute(shs, bxs, r, attrib_sym) IN
           IF val[1] = "Err" THEN val
           ELSE IF val[1] = "Function"
           THEN IF ~is_type_method(val) THEN Err("InvalidFunctionBinding")
                ELSE bind(r, val)
           ELSE val
      [] OTHER -> Err("ValueHasNoAttributes")

(***************************************************************************)
(* runtime_value/mod.rs: the operator protocol                             *)
(***************************************************************************)

INTERNED_OP_IMPL_ADD == 4
INTERNED_OP_IMPL_RADD == 5

\* The struct registered as BuiltinTypeId::Unimplemented, and a struct of a
\* program that has the same name.
UnimplementedStruct == "builtin.Unimplemented"
UserStruct == "user.Unimplemented"

\* An Object value: an instance id of a struct.
ObjectVal(st, id) == <<"Object", st, id>>
VmErrorVal(reason) == <<"VmError", reason, "">>

\* ExecutionResult<CallResult>: Ok(CallResult::Ok(v)), Ok(CallResult::Exception(e))
\* and Err(VmError).
CallOk(v) == [kind |-> "Ok", val |-> v]
CallException(v) == [kind |-> "Exception", val |-> v]
CallErr(reason) == [kind |-> "Err", val |-> VmErrorVal(reason)]

\* OperatorEvalAttemptOutcome and OperatorEvalOutcome.
OutcomeOk(v) == [kind |-> "Ok", val |-> v]
OutcomeException(v) == [kind |-> "Exception", val |-> v]
OutcomeError(v) == [kind |-> "Error", val |-> v]
NeedTryROperator == [kind |-> "NeedTryROperator", val |-> None]
UnexpectedType == OutcomeError(VmErrorVal("UnexpectedType"))

\* The bodies of the operator methods programs of the model define: a body
\* returns an Int, returns an Unimplemented object, throws an Unimplemented
\* object, throws an object of the program's own struct, or ends in a VM error.
Bodies == {"ret_int", "ret_unimpl", "throw_unimpl", "throw_user", "vm_error"}
MethodVals == {FunctionVal(b) : b \in Bodies}

\* Function::eval and BoundFunction::eval: what a call of the function with
\* one argument ends in, by its body.
Function_eval(f) ==
    CASE f[2] = "ret_int" -> CallOk(IntegerVal("3"))
      [] f[2] = "ret_unimpl" -> CallOk(ObjectVal(UnimplementedStruct, "u"))
      [] f[2] = "throw_unimpl" -> CallException(ObjectVal(UnimplementedStruct, "u"))
      [] f[2] = "throw_user" -> CallException(ObjectVal(UserStruct, "e"))
      [] f[2] = "ret_true" -> CallOk(<<"Boolean", "true", "">>)
      [] f[2] = "ret_false" -> CallOk(<<"Boolean", "false", "">>)
      [] OTHER -> CallErr("OperationFailed")

\* RuntimeValue::eval: no value of the model other than a function has an
\* _op_impl_call.
eval(op) ==
    IF op[1] \in {"Function", "BoundFunction"} THEN Function_eval(op)
    ELSE CallErr("UnexpectedType")

\* RuntimeValue::is_builtin_unimplemented.
is_builtin_unimplemented(v) == v[1] = "Object" /\ v[2] = UnimplementedStruct

\* RuntimeValueType::get_type: an object's type is its struct, an Integer's
\* is Int.
get_type(r) == IF Variant(r) = "Object" THEN get_struct(r) ELSE Variant(r)

\* try_eval_bin_op with one slip: "surface" does not test a thrown value for
\* the Unimplemented struct; "returned" tests a returned value for it too.
try_eval_bin_op_variant(op, other_val, bug) ==
    LET cr == eval(op) IN
    CASE cr.kind = "Ok" ->
           IF bug = "returned" /\ is_builtin_unimplemented(cr.val)
           THEN NeedTryROperator ELSE OutcomeOk(cr.val)
      [] cr.kind = "Exception" ->
           IF bug # "surface" /\ is_builtin_unimplemented(cr.val)
           THEN NeedTryROperator
           ELSE OutcomeException(cr.val)
      [] OTHER -> OutcomeError(cr.val)

try_eval_bin_op_surface(op, other_val) == try_eval_bin_op_variant(op, other_val, "surface")
try_eval_bin_op_returned(op, other_val) == try_eval_bin_op_variant(op, other_val, "returned")

\* RuntimeValue::try_eval_bin_op: the call of op with other_val as argument.
try_eval_bin_op(op, other_val) ==
    LET cr == eval(op) IN
    CASE cr.kind = "Ok" -> OutcomeOk(cr.val)
      [] cr.kind = "Exception" ->
           IF is_builtin_unimplemented(cr.val) THEN NeedTryROperator
           ELSE OutcomeException(cr.val)
      [] OTHER -> OutcomeError(cr.val)

\* One call a dispatch makes: the callable read, its symbol, the argument.
OpCall(op, sym, arg) == [op |-> op, sym |-> sym, arg |-> arg]

\* bin_op_impl! with one slip: "right_first" tries the reverse method before
\* the forward one; "same_type" skips the test of the operand types;
\* "on_failure" goes on to the reverse method when the forward call fails.
bin_op_impl_variant(shs, bxs, lhs, rhs, fwd_sym, rev_sym, bug) ==
    LET fop == read_attribute(shs, bxs, lhs, fwd_sym)
        rop == read_attribute(shs, bxs, rhs, rev_sym)
        same == get_type(lhs) = get_type(rhs)
        fwd == IF fop[1] # "Err" THEN try_eval_bin_op(fop, rhs) ELSE NeedTryROperator
        rev == IF rop[1] # "Err" THEN try_eval_bin_op(rop, lhs) ELSE NeedTryROperator
        fcalls == IF fop[1] # "Err" THEN <<OpCall(fop, fwd_sym, rhs)>> ELSE <<>>
        rcalls == IF rop[1] # "Err" THEN <<OpCall(rop, rev_sym, lhs)>> ELSE <<>>
        base == [fwd |-> fop, rev |-> rop, same |-> same] IN
    IF bug = "right_first" /\ ~same /\ rev.kind # "NeedTryROperator"
    THEN [out |-> rev, calls |-> rcalls] @@ base
    ELSE IF fwd.kind = "Ok" \/ (bug # "on_failure" /\ fwd.kind # "NeedTryROperator")
    THEN [out |-> fwd, calls |-> fcalls] @@ base
    ELSE IF bug # "same_type" /\ same
    THEN [out |-> UnexpectedType, calls |-> fcalls] @@ base
    ELSE [out |-> IF rev.kind = "NeedTryROperator" THEN UnexpectedType ELSE rev,
          calls |-> fcalls \o rcalls] @@ base

bin_op_impl_right_first(shs, bxs, lhs, rhs, fwd_sym, rev_sym) ==
    bin_op_impl_variant(shs, bxs, lhs, rhs, fwd_sym, rev_sym, "right_first")
bin_op_impl_same_type(shs, bxs, lhs, rhs, fwd_sym, rev_sym) ==
    bin_op_impl_variant(shs, bxs, lhs, rhs, fwd_sym, rev_sym, "same_type")
bin_op_impl_on_failure(shs, bxs, lhs, rhs, fwd_sym, rev_sym) ==
    bin_op_impl_variant(shs, bxs, lhs, rhs, fwd_sym, rev_sym, "on_failure")

\* bin_op_impl!: the outcome of lhs <op> rhs and the calls made, in order,
\* with what the two reads and the test of the types gave.
bin_op_impl(shs, bxs, lhs, rhs, fwd_sym, rev_sym) ==
    LET fop == read_attribute(shs, bxs, lhs, fwd_sym)
        fwd == IF fop[1] # "Err" THEN try_eval_bin_op(fop, rhs) ELSE NeedTryROperator
        fcalls == IF fop[1] # "Err" THEN <<OpCall(fop, fwd_sym, rhs)>> ELSE <<>>
        rop == read_attribute(shs, bxs, rhs, rev_sym)
        same == get_type(lhs) = get_type(rhs)
        base == [fwd |-> fop, rev |-> rop, same |-> same] IN
    IF fop[1] # "Err" /\ fwd.kind # "NeedTryROperator"
    THEN [out |-> fwd, calls |-> fcalls] @@ base
    ELSE IF same
    THEN [out |-> UnexpectedType, calls |-> fcalls] @@ base
    ELSE IF rop[1] # "Err"
    THEN LET rev == try_eval_bin_op(rop, lhs) IN
         [out |-> IF rev.kind = "NeedTryROperator" THEN UnexpectedType ELSE rev,
          calls |-> Append(fcalls, OpCall(rop, rev_sym, lhs))] @@ base
    ELSE [out |-> UnexpectedType, calls |-> fcalls] @@ base

\* RuntimeValue::add.
add(shs, bxs, lhs, rhs) ==
    bin_op_impl(shs, bxs, lhs, rhs, INTERNED_OP_IMPL_ADD, INTERNED_OP_IMPL_RADD)

(***************************************************************************)
(* runtime_value/mod.rs, enum_case.rs: equality                            *)
(***************************************************************************)

INTERNED_OP_IMPL_EQUALS == 1

BooleanVal(b) == <<"Boolean", IF b THEN "true" ELSE "false", "">>

\* The values equality is applied to.  Each name is one instance (one Rc):
\* two objects of S; the Int n = 1; the Floats x1 = 1.0 and x2 = 2.0; and
\* values of the enums E and D: e0 = E case 0 without
\* payload, e1 and e1b = E case 1 with payload o1, e2 = E case 1 with payload
\* o2, d1 = D case 1 with payload o1.
EnumValues == {"e0", "e1", "e1b", "e2", "d1"}
EqOperands == Objects \cup {"n", "x1", "x2"} \cup EnumValues

\* The raw value of an Int or a Float.
raw_value(v) == IF v = "x2" THEN 2 ELSE 1

\* EnumValue::get_container_enum, get_case_index and get_payload.
get_container_enum(v) == IF v = "d1" THEN "D" ELSE "E"
get_case_index(v) == IF v = "e0" THEN 0 ELSE 1
get_payload(v) ==
    CASE v = "e0" -> [some |-> FALSE, v |-> ""]
      [] v = "e2" -> [some |-> TRUE, v |-> "o2"]
      [] OTHER -> [some |-> TRUE, v |-> "o1"]

\* RuntimeValueType::get_type of a value equality is applied to: an enum
\* value's type is its enum.
get_type_of(v) ==
    IF v \in EnumValues THEN get_container_enum(v) ELSE get_type(v)

\* RuntimeValue::read_attribute on a value equality is applied to: the
\* enums of the model have no members, and the values that are created for
\* the comparison have an empty attribute store.
read_attribute_of(shs, bxs, v, attrib_sym) ==
    IF v \in Receivers THEN read_attribute(shs, bxs, v, attrib_sym)
    ELSE Err("NoSuchAttribute")

\* RuntimeValue::try_eval_rel_op: the call of rel_op_obj with other_val as
\* argument; a value that is not a Boolean counts as NeedTryROperator.
try_eval_rel_op(rel_op_obj, other_val) ==
    LET cr == eval(rel_op_obj) IN
    CASE cr.kind = "Ok" ->
           IF cr.val[1] = "Boolean" THEN OutcomeOk(cr.val) ELSE NeedTryROperator
      [] cr.kind = "Exception" ->
           IF is_builtin_unimplemented(cr.val) THEN NeedTryROperator
           ELSE OutcomeException(cr.val)
      [] OTHER -> OutcomeError(cr.val)

\* RuntimeValue::equals and RuntimeValue::builtin_equals with one slip:
\*   "one_way"   builtin_equals has no (Integer, Float) arm;
\*   "no_ptr_eq" EnumValue::builtin_equals does not test Rc::ptr_eq;
\*   "rhs_first" equals asks the right operand's _op_impl_equals first;
\*   "no_case"   EnumValueImpl::builtin_equals does not compare the case.
RECURSIVE equals_variant(_, _, _, _, _)
RECURSIVE builtin_equals_variant(_, _, _, _, _)
builtin_equals_variant(shs, bxs, self, other, bug) ==
    LET sv == Variant(self)
        ov == Variant(other) IN
    CASE sv = "Integer" /\ ov = "Integer" -> raw_value(self) = raw_value(other)
      [] sv = "Float" /\ ov = "Float" -> raw_value(self) = raw_value(other)
      [] sv = "Float" /\ ov = "Integer" -> raw_value(self) = raw_value(other)
      [] sv = "Integer" /\ ov = "Float" ->
           bug # "one_way" /\ raw_value(self) = raw_value(other)
      [] sv = "Object" /\ ov = "Object" -> self = other
      [] sv = "List" /\ ov = "List" -> self = other
      [] sv = "EnumValue" /\ ov = "EnumValue" ->
           \/ bug # "no_ptr_eq" /\ self = other
           \/ /\ get_container_enum(self) = get_container_enum(other)
              /\ bug = "no_case" \/ get_case_index(self) = get_case_index(other)
              /\ LET a == get_payload(self)
                     b == get_payload(other) IN
                 CASE ~a.some /\ ~b.some -> TRUE
                   [] a.some /\ b.some -> equals_variant(shs, bxs, a.v, b.v, bug).res
                   [] OTHER -> FALSE
      [] OTHER -> FALSE

equals_variant(shs, bxs, lhs, rhs, bug) ==
    LET fop == read_attribute_of(shs, bxs, lhs, INTERNED_OP_IMPL_EQUALS)
        rop == read_attribute_of(shs, bxs, rhs, INTERNED_OP_IMPL_EQUALS)
        same == get_type_of(lhs) = get_type_of(rhs)
        fwd == IF fop[1] # "Err" THEN try_eval_rel_op(fop, rhs) ELSE NeedTryROperator
        rev == IF rop[1] # "Err" THEN try_eval_rel_op(rop, lhs) ELSE NeedTryROperator
        fcalls == IF fop[1] # "Err" THEN <<OpCall(fop, INTERNED_OP_IMPL_EQUALS, rhs)>>
                  ELSE <<>>
        rcalls == IF rop[1] # "Err" THEN <<OpCall(rop, INTERNED_OP_IMPL_EQUALS, lhs)>>
                  ELSE <<>>
        base == [fwd |-> fop, rev |-> rop, same |-> same]
        builtin == builtin_equals_variant(shs, bxs, lhs, rhs, bug) IN
    IF bug = "rhs_first" /\ ~same /\ rev.kind = "Ok"
    THEN [res |-> rev.val = BooleanVal(TRUE), calls |-> rcalls] @@ base
    ELSE IF fwd.kind = "Ok"
    THEN [res |-> fwd.val = BooleanVal(TRUE), calls |-> fcalls] @@ base
    ELSE IF fwd.kind \in {"Exception", "Error"} \/ same
    THEN [res |-> builtin, calls |-> fcalls] @@ base
    ELSE IF rev.kind = "Ok"
    THEN [res |-> rev.val = BooleanVal(TRUE), calls |-> fcalls \o rcalls] @@ base
    ELSE [res |-> builtin, calls |-> fcalls \o rcalls] @@ base

builtin_equals_one_way(shs, bxs, self, other) ==
    builtin_equals_variant(shs, bxs, self, other, "one_way")
builtin_equals_no_ptr_eq(shs, bxs, self, other) ==
    builtin_equals_variant(shs, bxs, self, other, "no_ptr_eq")
builtin_equals_no_case(shs, bxs, self, other) ==
    builtin_equals_variant(shs, bxs, self, other, "no_case")
equals_rhs_first(shs, bxs, lhs, rhs) == equals_variant(shs, bxs, lhs, rhs, "rhs_first")

RECURSIVE equals(_, _, _, _)
RECURSIVE builtin_equals(_, _, _, _)

\* RuntimeValue::builtin_equals, with EnumValue::builtin_equals and
\* EnumValueImpl::builtin_equals for two enum values.
builtin_equals(shs, bxs, self, other) ==
    LET sv == Variant(self)
        ov == Variant(other) IN
    CASE sv = "Integer" /\ ov = "Integer" -> raw_value(self) = raw_value(other)
      [] sv = "Float" /\ ov = "Float" -> raw_value(self) = raw_value(other)
      [] sv = "Float" /\ ov = "Integer" -> raw_value(self) = raw_value(other)
      [] sv = "Integer" /\ ov = "Float" -> raw_value(self) = raw_value(other)
      [] sv = "Object" /\ ov = "Object" -> self = other
      [] sv = "List" /\ ov = "List" -> self = other
      [] sv = "EnumValue" /\ ov = "EnumValue" ->
           \/ self = other
           \/ /\ get_container_enum(self) = get_container_enum(other)
              /\ get_case_index(self) = get_case_index(other)
              /\ LET a == get_payload(self)
                     b == get_payload(other) IN
                 CASE ~a.some /\ ~b.some -> TRUE
                   [] ~a.some /\ b.some -> FALSE
                   [] a.some /\ ~b.some -> FALSE
                   [] OTHER -> equals(shs, bxs, a.v, b.v).res
      [] OTHER -> FALSE

\* RuntimeValue::equals: the boolean lhs == rhs is, and the calls made, in
\* order, with what the two reads and the test of the types gave.
equals(shs, bxs, lhs, rhs) ==
    LET fop == read_attribute_of(shs, bxs, lhs, INTERNED_OP_IMPL_EQUALS)
        fwd == IF fop[1] # "Err" THEN try_eval_rel_op(fop, rhs) ELSE NeedTryROperator
        fcalls == IF fop[1] # "Err" THEN <<OpCall(fop, INTERNED_OP_IMPL_EQUALS, rhs)>>
                  ELSE <<>>
        rop == read_attribute_of(shs, bxs, rhs, INTERNED_OP_IMPL_EQUALS)
        same == get_type_of(lhs) = get_type_of(rhs)
        base == [fwd |-> fop, rev |-> rop, same |-> same] IN
    IF fop[1] # "Err" /\ fwd.kind = "Ok"
    THEN [res |-> fwd.val = BooleanVal(TRUE), calls |-> fcalls] @@ base
    ELSE IF fop[1] # "Err" /\ fwd.kind \in {"Exception", "Error"}
    THEN [res |-> builtin_equals(shs, bxs, lhs, rhs), calls |-> fcalls] @@ base
    ELSE IF same
    THEN [res |-> builtin_equals(shs, bxs, lhs, rhs), calls |-> fcalls] @@ base
    ELSE IF rop[1] # "Err"
    THEN LET rev == try_eval_rel_op(rop, lhs) IN
         [res |-> IF rev.kind = "Ok" THEN rev.val = BooleanVal(TRUE)
                  ELSE builtin_equals(shs, bxs, lhs, rhs),
          calls |-> Append(fcalls, OpCall(rop, INTERNED_OP_IMPL_EQUALS, lhs))] @@ base
    ELSE [res |-> builtin_equals(shs, bxs, lhs, rhs), calls |-> fcalls] @@ base

(***************************************************************************)
(* error/exception.rs, error/vm_error.rs, builtins/runtime_error.rs        *)
(***************************************************************************)

RUNTIME_ERR_CASE_DIVISION_BY_ZERO_IDX == 0
RUNTIME_ERR_CASE_ENUM_WITHOUT_PAYLOAD_IDX == 1
RUNTIME_ERR_CASE_INDEX_OUT_OF_BOUNDS_IDX == 2
RUNTIME_ERR_CASE_MISMATCHED_ARGC_IDX == 3
RUNTIME_ERR_CASE_NO_SUCH_CASE_IDX == 4
RUNTIME_ERR_CASE_NO_SUCH_IDENTIFIER_IDX == 5
RUNTIME_ERR_CASE_OPERATION_FAILED_IDX == 6
RUNTIME_ERR_CASE_UNEXPECTED_TYPE_IDX == 7

INTERNED_ATTR_ARGC_MISMATCH == 34
INTERNED_ATTR_EXPECTED == 37
INTERNED_ATTR_ACTUAL == 38

\* The cases of the enum RuntimeError, in order, each with the type of its
\* payload ("" for a case without payload).
RuntimeErrorCases ==
    <<[name |-> "DivisionByZero", payload_type |-> ""],
      [name |-> "EnumWithoutPayload", payload_type |-> ""],
      [name |-> "IndexOutOfBounds", payload_type |-> "Int"],
      [name |-> "MismatchedArgumentCount", payload_type |-> "ArgcMismatch"],
      [name |-> "NoSuchCase", payload_type |-> "String"],
      [name |-> "NoSuchIdentifier", payload_type |-> "String"],
      [name |-> "OperationFailed", payload_type |-> "String"],
      [name |-> "UnexpectedType", payload_type |-> ""]>>

\* The struct ArgcMismatch as a value: what insert_runtime_error_builtins
\* writes to RuntimeError under the name ArgcMismatch.
ArgcMismatchStruct == <<"Type", "Struct", "ArgcMismatch">>

\* A VmErrorReason: the variant and its fields (str, n, m, kind).
Reason(tag, str, n, m, kind) ==
    [tag |-> tag, str |-> str, n |-> n, m |-> m, kind |-> kind]

\* Option<SourcePointer>.
NoLoc == [some |-> FALSE, v |-> ""]
SomeLoc(l) == [some |-> TRUE, v |-> l]

\* VmError: the reason and the location (opcode and backtrace are carried
\* along unchanged).
VmError(reason, loc) == [reason |-> reason, loc |-> loc]

\* The payload of an enum value: None, an Integer, a String or an Object
\* with its attribute box.
NoPayload == [some |-> FALSE, variant |-> "", n |-> 0, str |-> "", box |-> ObjectBoxDefault]
IntegerPayload(n) ==
    [some |-> TRUE, variant |-> "Integer", n |-> n, str |-> "", box |-> ObjectBoxDefault]
StringPayload(str) ==
    [some |-> TRUE, variant |-> "String", n |-> 0, str |-> str, box |-> ObjectBoxDefault]
ObjectPayload(st, box) ==
    [some |-> TRUE, variant |-> "Object", n |-> 0, str |-> st, box |-> box]

\* ExceptionData.
ExceptionData(case, payload) == [case |-> case, payload |-> payload]

\* A value that is thrown: an enum value of RuntimeError or a program's value.
EnumValueOf(enumm, case, payload) ==
    [variant |-> "EnumValue", enumm |-> enumm, case |-> case, payload |-> payload]
ProgramValue == [variant |-> "Object", enumm |-> "", case |-> 0, payload |-> NoPayload]

\* Enum::make_value on RuntimeError: None (some = FALSE) for an index that
\* is no case and for a payload the case does not declare or lacks.
make_value(cidx, payload) ==
    IF cidx + 1 \in DOMAIN RuntimeErrorCases
       /\ (RuntimeErrorCases[cidx + 1].payload_type # "") = payload.some
    THEN [some |-> TRUE, v |-> EnumValueOf("RuntimeError", cidx, payload)]
    ELSE [some |-> FALSE, v |-> ProgramValue]

\* Backtrace: the source pointers pushed, in order.
Backtrace_push(bt, loc) == Append(bt, loc)

\* VmException::from_value.
from_value(value) == [value |-> value, backtrace |-> <<>>]

\* VmException::thrown_at with one slip: "prepend" puts the location first,
\* "restart" starts a new backtrace, "always" pushes in every case.
thrown_at_variant(self, loc, bug) ==
    IF bug # "always" /\ Len(self.backtrace) = 1 /\ self.backtrace[1] = loc
    THEN self
    ELSE [value |-> self.value,
          backtrace |-> CASE bug = "prepend" -> <<loc>> \o self.backtrace
                          [] bug = "restart" -> <<loc>>
                          [] OTHER -> Backtrace_push(self.backtrace, loc)]

thrown_at_prepend(self, loc) == thrown_at_variant(self, loc, "prepend")
thrown_at_restart(self, loc) == thrown_at_variant(self, loc, "restart")

\* VmException::thrown_at.
thrown_at(self, loc) ==
    IF Len(self.backtrace) = 1 /\ self.backtrace[1] = loc
    THEN self
    ELSE [value |-> self.value, backtrace |-> Backtrace_push(self.backtrace, loc)]

\* VmException::from_value_and_loc.
from_value_and_loc(value, loc) ==
    LET this == from_value(value) IN
    IF loc.some THEN thrown_at(this, loc.v) ELSE this

\* The two write_attribute calls on the new ArgcMismatch object: the shapes
\* registry and the object's box after them.
ArgcMismatchObject(shs, expected, actual) ==
    LET w1 == ObjectBox_write(shs, ObjectBoxDefault, INTERNED_ATTR_EXPECTED,
                              <<"Integer", ToString(expected), "">>)
        w2 == ObjectBox_write(w1.shapes, w1.box, INTERNED_ATTR_ACTUAL,
                              <<"Integer", ToString(actual), "">>) IN
    [shapes |-> w2.shapes, box |-> w2.box]

\* The match on err.reason of from_vmerror: the ExceptionData, or none for
\* the reasons that are returned as they are.
NoData == [some |-> FALSE, data |-> ExceptionData(0, NoPayload)]
SomeData(case, payload) == [some |-> TRUE, data |-> ExceptionData(case, payload)]

e_data_variant(in, shs, argc, reason, bug) ==
    CASE reason.tag = "DivisionByZero" ->
           SomeData(RUNTIME_ERR_CASE_DIVISION_BY_ZERO_IDX, NoPayload)
      [] reason.tag = "EnumWithoutPayload" ->
           SomeData(RUNTIME_ERR_CASE_ENUM_WITHOUT_PAYLOAD_IDX, NoPayload)
      [] reason.tag = "IndexOutOfBounds" ->
           SomeData(RUNTIME_ERR_CASE_INDEX_OUT_OF_BOUNDS_IDX, IntegerPayload(reason.n))
      [] reason.tag = "MismatchedArgumentCount" ->
           IF argc # ArgcMismatchStruct THEN NoData
           ELSE SomeData(RUNTIME_ERR_CASE_MISMATCHED_ARGC_IDX,
                         ObjectPayload("ArgcMismatch",
                            IF bug = "swap"
                            THEN ArgcMismatchObject(shs, reason.m, reason.n).box
                            ELSE ArgcMismatchObject(shs, reason.n, reason.m).box))
      [] reason.tag = "NoSuchCase" ->
           SomeData(IF bug = "case" THEN RUNTIME_ERR_CASE_NO_SUCH_IDENTIFIER_IDX
                    ELSE RUNTIME_ERR_CASE_NO_SUCH_CASE_IDX, StringPayload(reason.str))
      [] reason.tag = "NoSuchIdentifier" ->
           SomeData(RUNTIME_ERR_CASE_NO_SUCH_IDENTIFIER_IDX, StringPayload(reason.str))
      [] reason.tag = "NoSuchSymbol" ->
           LET name_for_sym == resolve(in, reason.n) IN
           IF name_for_sym.some
           THEN SomeData(IF reason.kind = "Identifier"
                         THEN RUNTIME_ERR_CASE_NO_SUCH_IDENTIFIER_IDX
                         ELSE RUNTIME_ERR_CASE_NO_SUCH_CASE_IDX,
                         StringPayload(name_for_sym.v))
           ELSE NoData
      [] reason.tag = "OperationFailed" ->
           SomeData(RUNTIME_ERR_CASE_OPERATION_FAILED_IDX, StringPayload(reason.str))
      [] reason.tag = "UnexpectedType" ->
           SomeData(RUNTIME_ERR_CASE_UNEXPECTED_TYPE_IDX, NoPayload)
      [] reason.tag = "AssertFailed" /\ bug = "assert" ->
           SomeData(RUNTIME_ERR_CASE_OPERATION_FAILED_IDX, StringPayload(reason.str))
      [] OTHER -> NoData

e_data_swap(in, shs, argc, reason) == e_data_variant(in, shs, argc, reason, "swap")
e_data_case(in, shs, argc, reason) == e_data_variant(in, shs, argc, reason, "case")
e_data_assert(in, shs, argc, reason) == e_data_variant(in, shs, argc, reason, "assert")

e_data(in, shs, argc, reason) ==
    CASE reason.tag = "DivisionByZero" ->
           SomeData(RUNTIME_ERR_CASE_DIVISION_BY_ZERO_IDX, NoPayload)
      [] reason.tag = "EnumWithoutPayload" ->
           SomeData(RUNTIME_ERR_CASE_ENUM_WITHOUT_PAYLOAD_IDX, NoPayload)
      [] reason.tag = "IndexOutOfBounds" ->
           SomeData(RUNTIME_ERR_CASE_INDEX_OUT_OF_BOUNDS_IDX, IntegerPayload(reason.n))
      [] reason.tag = "MismatchedArgumentCount" ->
           IF argc # ArgcMismatchStruct THEN NoData
           ELSE SomeData(RUNTIME_ERR_CASE_MISMATCHED_ARGC_IDX,
                         ObjectPayload("ArgcMismatch",
                                       ArgcMismatchObject(shs, reason.n, reason.m).box))
      [] reason.tag = "NoSuchCase" ->
           SomeData(RUNTIME_ERR_CASE_NO_SUCH_CASE_IDX, StringPayload(reason.str))
      [] reason.tag = "NoSuchIdentifier" ->
           SomeData(RUNTIME_ERR_CASE_NO_SUCH_IDENTIFIER_IDX, StringPayload(reason.str))
      [] reason.tag = "NoSuchSymbol" ->
           LET name_for_sym == resolve(in, reason.n) IN
           IF name_for_sym.some
           THEN SomeData(IF reason.kind = "Identifier"
                         THEN RUNTIME_ERR_CASE_NO_SUCH_IDENTIFIER_IDX
                         ELSE RUNTIME_ERR_CASE_NO_SUCH_CASE_IDX,
                         StringPayload(name_for_sym.v))
           ELSE NoData
      [] reason.tag = "OperationFailed" ->
           SomeData(RUNTIME_ERR_CASE_OPERATION_FAILED_IDX, StringPayload(reason.str))
      [] reason.tag = "UnexpectedType" ->
           SomeData(RUNTIME_ERR_CASE_UNEXPECTED_TYPE_IDX, NoPayload)
      [] OTHER -> NoData

\* VmException::from_vmerror: Ok(exception) (ok = TRUE) or Err(err), and the
\* shapes registry after the call.  argc is what RuntimeError holds under the
\* name ArgcMismatch.
from_vmerror(in, shs, argc, err) ==
    LET d == e_data(in, shs, argc, err.reason)
        v == make_value(d.data.case, d.data.payload)
        shs2 == IF err.reason.tag = "MismatchedArgumentCount" /\ d.some
                THEN ArgcMismatchObject(shs, err.reason.n, err.reason.m).shapes
                ELSE shs IN
    IF d.some /\ v.some
    THEN [ok |-> TRUE, exception |-> from_value_and_loc(v.v, err.loc), err |-> err,
          shapes |-> shs2]
    ELSE [ok |-> FALSE, exception |-> from_value(ProgramValue), err |-> err,
          shapes |-> shs2]

(***************************************************************************)
(* The execution loop: frames, try blocks, Throw and Assert                *)
(***************************************************************************)

\* A frame: the instruction pointer, the operand stack and the try-block
\* stack.  pc 0 stands for straight-line code.
NewFrame == [pc |-> 0, stack |-> <<>>, tries |-> <<>>]

\* A try block: the catch-pc and the depth of the operand stack at TryEnter.
TryBlock(catch_pc, sp) == [catch_pc |-> catch_pc, sp |-> sp]

\* The catch-pc of the k-th nested try block of a frame.
CatchPc(k) == 10 * k

Running == [status |-> "running", exc |-> ""]

\* An exception is raised in the innermost frame of fs: with an active try
\* block the frame goes on at its catch-pc, the operand stack cut to the
\* block's sp with the exception pushed; without one the frame is popped and
\* the exception goes on to the caller, or ends the run when no frame is left.
\* Variants: "oldest" takes the first try block entered, "keep_stack" does
\* not restore the operand stack, "skip_caller" pops the caller too.
raise_variant(fs, e, bug) ==
    LET n == Len(fs)
        f == fs[n] IN
    IF f.tries # <<>>
    THEN LET t == IF bug = "oldest" THEN f.tries[1] ELSE f.tries[Len(f.tries)] IN
         [frames |-> [fs EXCEPT ![n] =
                        [pc |-> t.catch_pc,
                         stack |-> Append(IF bug = "keep_stack" THEN f.stack
                                          ELSE SubSeq(f.stack, 1, t.sp), e),
                         tries |-> SubSeq(f.tries, 1, Len(f.tries) - 1)]],
          vmstate |-> Running]
    ELSE LET rest == SubSeq(fs, 1, IF bug = "skip_caller" /\ n > 1 THEN n - 2 ELSE n - 1) IN
         [frames |-> rest,
          vmstate |-> [status |-> IF rest = <<>> THEN "uncaught" ELSE "unwinding",
                       exc |-> e]]

raise_oldest(fs, e) == raise_variant(fs, e, "oldest")
raise_keep_stack(fs, e) == raise_variant(fs, e, "keep_stack")
raise_skip_caller(fs, e) == raise_variant(fs, e, "skip_caller")

raise(fs, e) ==
    LET n == Len(fs)
        f == fs[n] IN
    IF f.tries # <<>>
    THEN LET t == f.tries[Len(f.tries)] IN
         [frames |-> [fs EXCEPT ![n] =
                        [pc |-> t.catch_pc,
                         stack |-> Append(SubSeq(f.stack, 1, t.sp), e),
                         tries |-> SubSeq(f.tries, 1, Len(f.tries) - 1)]],
          vmstate |-> Running]
    ELSE LET rest == SubSeq(fs, 1, n - 1) IN
         [frames |-> rest,
          vmstate |-> [status |-> IF rest = <<>> THEN "uncaught" ELSE "unwinding",
                       exc |-> e]]

\* A VM error of an instruction: lifted by from_vmerror it is raised as the
\* enum value of RuntimeError (named by its case), otherwise it ends the run.
vm_error_of(fs, reason, r) ==
    IF r.ok
    THEN raise(fs, RuntimeErrorCases[r.exception.value.case + 1].name)
    ELSE [frames |-> fs, vmstate |-> [status |-> "vm_error", exc |-> reason.tag]]

vm_error(fs, in, shs, argc, reason) ==
    vm_error_of(fs, reason, from_vmerror(in, shs, argc, VmError(reason, NoLoc)))

(***************************************************************************)
(* bc_reader.rs: the bytecode reader                                       *)
(***************************************************************************)

\* The opcodes in the order of the match of read_opcode, each with the
\* operands the match reads: none, u8, u16, u32, u8 then u16, or a u8 that
\* must be a builtin type id or a runtime value id. The tag of an opcode is
\* its position in this table, counted from 0.
OpTable ==
    << <<"Nop", "none">>, <<"Push", "u16">>, <<"Push0", "none">>,
       <<"Push1", "none">>, <<"PushTrue", "none">>, <<"PushFalse", "none">>,
       <<"PushBuiltinTy", "builtin_type">>, <<"PushRuntimeValue", "runtime_value">>,
       <<"Pop", "none">>, <<"Dup", "none">>, <<"Swap", "none">>, <<"Copy", "u8">>,
       <<"Add", "none">>, <<"Sub", "none">>, <<"Mul", "none">>, <<"Div", "none">>,
       <<"Rem", "none">>, <<"Equal", "none">>, <<"GreaterThan", "none">>,
       <<"LessThan", "none">>, <<"GreaterThanEqual", "none">>,
       <<"LessThanEqual", "none">>, <<"Neg", "none">>, <<"ShiftLeft", "none">>,
       <<"ShiftRight", "none">>, <<"Not", "none">>, <<"ReadLocal", "u8">>,
       <<"WriteLocal", "u8">>, <<"TypedefLocal", "u8">>, <<"ReadNamed", "u16">>,
       <<"WriteNamed", "u16">>, <<"TypedefNamed", "u16">>, <<"ReadIndex", "u8">>,
       <<"WriteIndex", "u8">>, <<"ReadAttribute", "u16">>,
       <<"WriteAttribute", "u16">>, <<"ReadAttributeSymbol", "u32">>,
       <<"WriteAttributeSymbol", "u32">>, <<"ReadUplevel", "u8">>,
       <<"LogicalAnd", "none">>, <<"LogicalOr", "none">>, <<"Xor", "none">>,
       <<"BitwiseAnd", "none">>, <<"BitwiseOr", "none">>, <<"JumpTrue", "u16">>,
       <<"JumpFalse", "u16">>, <<"Jump", "u16">>, <<"JumpIfArgSupplied", "u8u16">>,
       <<"Call", "u8">>, <<"Return", "none">>, <<"ReturnUnit", "none">>,
       <<"TryEnter", "u16">>, <<"TryExit", "none">>, <<"Throw", "none">>,
       <<"BuildList", "u32">>, <<"BuildFunction", "u8">>, <<"StoreUplevel", "u8">>,
       <<"BuildStruct", "none">>, <<"BuildEnum", "none">>, <<"BuildMixin", "none">>,
       <<"BindMethod", "u8u16">>, <<"BindCase", "u8u16">>, <<"IncludeMixin", "none">>,
       <<"NewEnumVal", "u8u16">>, <<"EnumCheckIsCase", "u16">>,
       <<"EnumTryExtractPayload", "none">>, <<"TryUnwrapProtocol", "u8">>,
       <<"Isa", "none">>, <<"Import", "u16">>, <<"LiftModule", "none">>,
       <<"LoadDylib", "u16">>, <<"Assert", "u16">>, <<"Halt", "none">> >>

\* The tag of an opcode (haxby_opcodes::OPCODE_*).
TagOf(name) == (CHOOSE i \in DOMAIN OpTable : OpTable[i][1] = name) - 1

\* BuiltinTypeId::try_from and BuiltinValueId::try_from succeed on these.
BuiltinTypeIds == 1..13
BuiltinValueIds == 1..2

\* An opcode and its operands: a alone, a u8 a and a u16 b, or the u32
\* a + 65536 * b.
Opcode(name, a, b) == [op |-> name, a |-> a, b |-> b]
NoOpcode == Opcode("", 0, 0)

\* DecodeResult<Opcode>, with the index of the reader after the call.
DecodeOk(op, idx) == [ok |-> TRUE, err |-> "", tag |-> 0, val |-> 0, op |-> op, idx |-> idx]
DecodeError(err, tag, val, idx) ==
    [ok |-> FALSE, err |-> err, tag |-> tag, val |-> val, op |-> NoOpcode, idx |-> idx]

\* DecodeResult<u8>, <u16>, <u32>. A u32 is held as its two 16-bit halves,
\* val + 65536 * hi; hi is 0 for a u8 and a u16.
ReadOk(val, idx) == [ok |-> TRUE, val |-> val, hi |-> 0, idx |-> idx]
ReadEnd(idx) == [ok |-> FALSE, val |-> 0, hi |-> 0, idx |-> idx]

\* BytecodeReader::read_u8.
read_u8(data, idx) ==
    IF idx < Len(data) THEN ReadOk(data[idx + 1], idx + 1) ELSE ReadEnd(idx)

\* read_u16 with one slip: "big_endian" reads the most significant byte
\* first, "strict" wants a byte after the operand, "lax" reads with one byte
\* left, "short" advances by one byte.
read_u16_variant(data, idx, bug) ==
    IF idx + (IF bug = "strict" THEN 2 ELSE IF bug = "lax" THEN 0 ELSE 1) < Len(data)
    THEN LET b0 == data[idx + 1]
             b1 == IF idx + 2 <= Len(data) THEN data[idx + 2] ELSE 0 IN
         ReadOk(IF bug = "big_endian" THEN 256 * b0 + b1 ELSE b0 + 256 * b1,
                idx + (IF bug = "short" THEN 1 ELSE 2))
    ELSE ReadEnd(idx)

read_u16_big_endian(data, idx) == read_u16_variant(data, idx, "big_endian")
read_u16_strict(data, idx) == read_u16_variant(data, idx, "strict")
read_u16_lax(data, idx) == read_u16_variant(data, idx, "lax")
read_u16_short(data, idx) == read_u16_variant(data, idx, "short")

\* BytecodeReader::read_u16 (u16::from_le_bytes).
read_u16(data, idx) ==
    IF idx + 1 < Len(data)
    THEN ReadOk(data[idx + 1] + 256 * data[idx + 2], idx + 2)
    ELSE ReadEnd(idx)

\* BytecodeReader::read_u32 (u32::from_le_bytes).
read_u32(data, idx) ==
    IF idx + 3 < Len(data)
    THEN [ok |-> TRUE, val |-> data[idx + 1] + 256 * data[idx + 2],
          hi |-> data[idx + 3] + 256 * data[idx + 4], idx |-> idx + 4]
    ELSE ReadEnd(idx)

\* An arm of read_opcode with one operand, read as r.
one_operand(name, r) ==
    IF r.ok THEN DecodeOk(Opcode(name, r.val, r.hi), r.idx)
    ELSE DecodeError("InsufficientData", 0, 0, r.idx)

\* An arm with a u8 operand, read as r0, and then a u16 operand, read as r1.
two_operands(name, r0, r1) ==
    IF ~r0.ok THEN DecodeError("InsufficientData", 0, 0, r0.idx)
    ELSE IF ~r1.ok THEN DecodeError("InsufficientData", 0, 0, r1.idx)
    ELSE DecodeOk(Opcode(name, r0.val, r1.val), r1.idx)

\* The arms of PushBuiltinTy and PushRuntimeValue: a u8, read as r, that
\* try_from accepts when it is in ids.
checked_operand(name, next, r, ids) ==
    IF ~r.ok THEN DecodeError("InsufficientData", 0, 0, r.idx)
    ELSE IF r.val \notin ids THEN DecodeError("UnknownOperand", next, r.val, r.idx)
    ELSE DecodeOk(Opcode(name, r.val, 0), r.idx)

\* The match of read_opcode on the tag next, read up to idx.
read_operands(data, next, idx) ==
    IF next + 1 \notin DOMAIN OpTable THEN DecodeError("UnknownOpcode", next, 0, idx)
    ELSE LET name == OpTable[next + 1][1]
             kind == OpTable[next + 1][2] IN
         CASE kind = "none" -> DecodeOk(Opcode(name, 0, 0), idx)
           [] kind = "u8" -> one_operand(name, read_u8(data, idx))
           [] kind = "u16" -> one_operand(name, read_u16(data, idx))
           [] kind = "u32" -> one_operand(name, read_u32(data, idx))
           [] kind = "u8u16" ->
                two_operands(name, read_u8(data, idx), read_u16(data, read_u8(data, idx).idx))
           [] kind = "builtin_type" ->
                checked_operand(name, next, read_u8(data, idx), BuiltinTypeIds)
           [] OTHER -> checked_operand(name, next, read_u8(data, idx), BuiltinValueIds)

\* The tag read by read_opcode: the end of the stream ends the call.
read_tag(data, r) ==
    IF r.ok THEN read_operands(data, r.val, r.idx)
    ELSE DecodeError("EndOfStream", 0, 0, r.idx)

\* BytecodeReader::read_opcode.
read_opcode(data, idx) == read_tag(data, read_u8(data, idx))

\* The loop of byte_array_to_opcode_array from the index idx on, with the
\* opcodes read so far; r is the opcode read at idx.
RECURSIVE decode_from(_, _, _)
decode_next(data, opcodes, r) ==
    IF r.ok THEN decode_from(data, r.idx, Append(opcodes, r.op))
    ELSE IF r.err = "EndOfStream"
    THEN [ok |-> TRUE, err |-> "", opcodes |-> opcodes]
    ELSE [ok |-> FALSE, err |-> r.err, opcodes |-> <<>>]
decode_from(data, idx, opcodes) == decode_next(data, opcodes, read_opcode(data, idx))

\* byte_array_to_opcode_array.
byte_array_to_opcode_array(bytes) == decode_from(bytes, 0, <<>>)

(***************************************************************************)
(* runtime_module.rs: the named values of a module                         *)
(***************************************************************************)

\* The values a module binds: the Integer 0 and a String.
ModVals == {"i0", "s1"}

\* IsaCheckable: any and Int.
ModTypes == {"Any", "Int"}

\* IsaCheckable::isa_check: any accepts every value, Int the Integers.
isa_check(ty, val) ==
    CASE ty = "Any" -> TRUE
      [] OTHER -> val = "i0"

NamedValue(val, ty) == [val |-> val, ty |-> ty]

\* Option<RuntimeValue> and Result<(), VmErrorReason> of the module operations.
NoModVal == [some |-> FALSE, v |-> ""]
ModOk(values) == [values |-> values, ok |-> TRUE, err |-> ""]
ModErr(values, err) == [values |-> values, ok |-> FALSE, err |-> err]

\* RuntimeModuleImpl::load_named_value.
load_named_value(values, name) ==
    IF name \in DOMAIN values THEN [some |-> TRUE, v |-> values[name].val] ELSE NoModVal

\* RuntimeModuleImpl::typedef_named_value.
typedef_named_value(values, name, ty) ==
    IF name \in DOMAIN values
    THEN [values EXCEPT ![name].ty = ty]
    ELSE Insert(values, name, NamedValue("i0", ty))

\* store_typechecked_named_value with one slip: "no_check" stores whatever
\* the witness, "store_first" stores before it checks.
store_typechecked_variant(values, name, val, bug) ==
    IF name \in DOMAIN values
    THEN IF bug # "no_check" /\ ~isa_check(values[name].ty, val)
         THEN ModErr(IF bug = "store_first" THEN [values EXCEPT ![name].val = val]
                     ELSE values, "UnexpectedType")
         ELSE ModOk([values EXCEPT ![name].val = val])
    ELSE ModErr(values, "NoSuchIdentifier")

store_typechecked_no_check(values, name, val) ==
    store_typechecked_variant(values, name, val, "no_check")
store_typechecked_store_first(values, name, val) ==
    store_typechecked_variant(values, name, val, "store_first")

\* RuntimeModuleImpl::store_typechecked_named_value.
store_typechecked_named_value(values, name, val) ==
    IF name \in DOMAIN values
    THEN IF ~isa_check(values[name].ty, val)
         THEN ModErr(values, "UnexpectedType")
         ELSE ModOk([values EXCEPT ![name].val = val])
    ELSE ModErr(values, "NoSuchIdentifier")

\* RuntimeModuleImpl::store_named_value.
store_named_value(values, name, val) ==
    IF name \in DOMAIN values
    THEN [values EXCEPT ![name].val = val]
    ELSE Insert(values, name, NamedValue(val, "Any"))

\* RuntimeModuleImpl::named_values_of_this: the entries of the map in the
\* order its iterator yields them, which is any order.
named_values_of_this(values) ==
    {o \in [1..Cardinality(DOMAIN values) -> DOMAIN values] :
        \A i, j \in DOMAIN o : i # j => o[i] # o[j]}

\* The loop of lift_all_symbols_from_other over the names in order, from the
\* i-th on, with the named values of prior_art as they were when it began.
\* Variants: "keep_witness" leaves the witness of a name the destination
\* already has, "no_witness" copies the values alone, "skip_last" leaves out
\* the last name.
RECURSIVE lift_from_variant(_, _, _, _, _)
lift_from_variant(values, prior, order, i, bug) ==
    IF i > Len(order) - (IF bug = "skip_last" THEN 1 ELSE 0) THEN ModOk(values)
    ELSE LET name == order[i]
             typed == IF bug = "no_witness"
                         \/ (bug = "keep_witness" /\ name \in DOMAIN values)
                      THEN (IF name \in DOMAIN values THEN values
                            ELSE typedef_named_value(values, name, "Any"))
                      ELSE typedef_named_value(values, name, prior[name].ty)
             r == store_typechecked_named_value(typed, name, prior[name].val) IN
         IF r.ok THEN lift_from_variant(r.values, prior, order, i + 1, bug) ELSE r

lift_keep_witness(values, prior, order) == lift_from_variant(values, prior, order, 1, "keep_witness")
lift_no_witness(values, prior, order) == lift_from_variant(values, prior, order, 1, "no_witness")
lift_skip_last(values, prior, order) == lift_from_variant(values, prior, order, 1, "skip_last")

RECURSIVE lift_from(_, _, _, _)
lift_from(values, prior, order, i) ==
    IF i > Len(order) THEN ModOk(values)
    ELSE LET typed == typedef_named_value(values, order[i], prior[order[i]].ty)
             r == store_typechecked_named_value(typed, order[i], prior[order[i]].val) IN
         IF r.ok THEN lift_from(r.values, prior, order, i + 1) ELSE r

\* RuntimeModule::lift_all_symbols_from_other: values are the named values of
\* self, prior those of prior_art, order the order named_values_of_this gave.
lift_all_symbols_from_other(values, prior, order) == lift_from(values, prior, order, 1)

(***************************************************************************)
(* runtime_module.rs: loading a compiled module                            *)
(***************************************************************************)

\* ConstantValue: a String, an Integer or a CompiledCodeObject with its body.
StringConst(str) == [body |-> <<>>, kind |-> "String", str |-> str]
IntegerConst == [body |-> <<>>, kind |-> "Integer", str |-> ""]
CodeObjectConst(body) == [body |-> body, kind |-> "CodeObject", str |-> ""]

\* CompiledModule::load_indexed_const.
cm_load_indexed_const(cm, n) ==
    IF n < Len(cm.constants) THEN [some |-> TRUE, v |-> cm.constants[n + 1]]
    ELSE [some |-> FALSE, v |-> IntegerConst]

\* What the lowering of one opcode, of one body and of a module give: the
\* interner after it, "ok", the VmErrorReason or "panic", and the opcodes.
Lowered(in, status, ops) == [in |-> in, status |-> status, ops |-> ops]

\* replace_const_with_symbol! with the constant loaded as c and, when it is a
\* string, interned as r.
const_to_symbol(in, c, r, target_variant) ==
    IF ~c.some \/ c.v.kind # "String" THEN Lowered(in, "panic", <<>>)
    ELSE IF ~r.ok THEN Lowered(in, "UnexpectedVmState", <<>>)
    ELSE Lowered(r.in, "ok", <<Opcode(target_variant, r.sym, 0)>>)

\* replace_const_with_symbol!.
replace_const_with_symbol(in, cm, n, target_variant) ==
    const_to_symbol(in, cm_load_indexed_const(cm, n),
                    intern(in, cm_load_indexed_const(cm, n).v.str), target_variant)

\* The loop of replace_attribute_access_with_interned with one slip:
\* "skip_write" leaves WriteAttribute as it is, "accept_symbol" lets the
\* symbol opcodes of a compiled body through.
RECURSIVE replace_variant_from(_, _, _, _, _)
replaced_variant(cm, opcodes, i, r, bug) ==
    IF r.status = "ok"
    THEN replace_variant_from(r.in, cm, [opcodes EXCEPT ![i] = r.ops[1]], i + 1, bug)
    ELSE Lowered(r.in, r.status, <<>>)
replace_variant_from(in, cm, opcodes, i, bug) ==
    IF i > Len(opcodes) THEN Lowered(in, "ok", opcodes)
    ELSE CASE opcodes[i].op = "ReadAttribute" ->
                replaced_variant(cm, opcodes, i,
                    replace_const_with_symbol(in, cm, opcodes[i].a, "ReadAttributeSymbol"), bug)
           [] opcodes[i].op = "WriteAttribute" /\ bug # "skip_write" ->
                replaced_variant(cm, opcodes, i,
                    replace_const_with_symbol(in, cm, opcodes[i].a, "WriteAttributeSymbol"), bug)
           [] opcodes[i].op \in {"ReadAttributeSymbol", "WriteAttributeSymbol"}
                /\ bug # "accept_symbol" ->
                Lowered(in, "UnexpectedVmState", <<>>)
           [] OTHER -> replace_variant_from(in, cm, opcodes, i + 1, bug)

replace_attribute_access_skip_write(in, cm, opcodes) ==
    replace_variant_from(in, cm, opcodes, 1, "skip_write")
replace_attribute_access_accept_symbol(in, cm, opcodes) ==
    replace_variant_from(in, cm, opcodes, 1, "accept_symbol")

\* The loop of replace_attribute_access_with_interned from the i-th opcode on.
RECURSIVE replace_from(_, _, _, _)
replaced(cm, opcodes, i, r) ==
    IF r.status = "ok"
    THEN replace_from(r.in, cm, [opcodes EXCEPT ![i] = r.ops[1]], i + 1)
    ELSE Lowered(r.in, r.status, <<>>)
replace_from(in, cm, opcodes, i) ==
    IF i > Len(opcodes) THEN Lowered(in, "ok", opcodes)
    ELSE CASE opcodes[i].op = "ReadAttribute" ->
                replaced(cm, opcodes, i,
                    replace_const_with_symbol(in, cm, opcodes[i].a, "ReadAttributeSymbol"))
           [] opcodes[i].op = "WriteAttribute" ->
                replaced(cm, opcodes, i,
                    replace_const_with_symbol(in, cm, opcodes[i].a, "WriteAttributeSymbol"))
           [] opcodes[i].op \in {"ReadAttributeSymbol", "WriteAttributeSymbol"} ->
                Lowered(in, "UnexpectedVmState", <<>>)
           [] OTHER -> replace_from(in, cm, opcodes, i + 1)

\* replace_attribute_access_with_interned.
replace_attribute_access_with_interned(in, cm, opcodes) == replace_from(in, cm, opcodes, 1)

\* compiled_code_object_to_runtime_code_object with the body decoded as d.
lower_decoded(in, cm, d) ==
    IF d.ok THEN replace_attribute_access_with_interned(in, cm, d.opcodes)
    ELSE Lowered(in, d.err, <<>>)

\* compiled_code_object_to_runtime_code_object: the body of the CodeObject.
compiled_code_object_to_runtime_code_object(in, cm, body) ==
    lower_decoded(in, cm, byte_array_to_opcode_array(body))

\* The loop of RuntimeModuleImpl::new over the constants from the i-th on:
\* compiled_constant_to_runtime_value turns a code object into its runtime
\* body and keeps every other constant.
RECURSIVE constants_from(_, _, _, _)
constant_lowered(cm, i, indexed_constants, r) ==
    IF r.status = "ok"
    THEN constants_from(r.in, cm, i + 1,
                        Append(indexed_constants, CodeObjectConst(r.ops)))
    ELSE Lowered(r.in, r.status, <<>>)
constants_from(in, cm, i, indexed_constants) ==
    IF i > Len(cm.constants) THEN Lowered(in, "ok", indexed_constants)
    ELSE IF cm.constants[i].kind = "CodeObject"
    THEN constant_lowered(cm, i, indexed_constants,
             compiled_code_object_to_runtime_code_object(in, cm, cm.constants[i].body))
    ELSE constants_from(in, cm, i + 1, Append(indexed_constants, cm.constants[i]))

\* RuntimeModuleImpl::new with the entry code object lowered as e and, when
\* that went well, the constants as c.
new_module(e, c) ==
    IF e.status # "ok" THEN [in |-> e.in, status |-> e.status, entry |-> <<>>, constants |-> <<>>]
    ELSE IF c.status # "ok"
    THEN [in |-> c.in, status |-> c.status, entry |-> <<>>, constants |-> <<>>]
    ELSE [in |-> c.in, status |-> "ok", entry |-> e.ops, constants |-> c.ops]

\* RuntimeModuleImpl::new.
RuntimeModuleImpl_new(in, cm) ==
    new_module(compiled_code_object_to_runtime_code_object(in, cm, cm.entry),
               constants_from(compiled_code_object_to_runtime_code_object(in, cm, cm.entry).in,
                              cm, 1, <<>>))

(***************************************************************************)
(* try_unwrap_expression.rs: the code of `left ?? right`                   *)
(***************************************************************************)

\* CompilerOpcode: an opcode with its operand, a jump with its blocks; left
\* and right stand for the code that self.left and self.right compile to.
CompilerOpcode(op, arg, to, else_to) == [op |-> op, arg |-> arg, to |-> to, else_to |-> else_to]

\* do_compile with one slip: "no_pop" leaves out the Pop of the fallback
\* block, "swapped" gives JumpConditionally its blocks the other way round.
do_compile_variant(bug) ==
    [current |->
        << CompilerOpcode("left", "", "", ""),
           CompilerOpcode("PushBuiltinTy", "Result", "", ""),
           CompilerOpcode("ReadAttribute", "try_unwrap_protocol", "", ""),
           CompilerOpcode("Call", "1", "", ""),
           CompilerOpcode("TryUnwrapProtocol", "FLAG_TO_CALLER", "", ""),
           IF bug = "swapped"
           THEN CompilerOpcode("JumpConditionally", "", "try_unwrap_fallback", "try_unwrap_end")
           ELSE CompilerOpcode("JumpConditionally", "", "try_unwrap_end", "try_unwrap_fallback") >>,
     try_unwrap_fallback |->
        (IF bug = "no_pop" THEN <<>> ELSE <<CompilerOpcode("Pop", "", "", "")>>) \o
        << CompilerOpcode("right", "", "", ""),
           CompilerOpcode("Jump", "", "try_unwrap_end", "") >>,
     try_unwrap_end |-> <<>>]

do_compile_no_pop == do_compile_variant("no_pop")
do_compile_swapped == do_compile_variant("swapped")

\* TryUnwrapExpression::do_compile: the blocks it writes.
TryUnwrapExpression_do_compile ==
    [current |->
        << CompilerOpcode("left", "", "", ""),
           CompilerOpcode("PushBuiltinTy", "Result", "", ""),
           CompilerOpcode("ReadAttribute", "try_unwrap_protocol", "", ""),
           CompilerOpcode("Call", "1", "", ""),
           CompilerOpcode("TryUnwrapProtocol", "FLAG_TO_CALLER", "", ""),
           CompilerOpcode("JumpConditionally", "", "try_unwrap_end", "try_unwrap_fallback") >>,
     try_unwrap_fallback |->
        << CompilerOpcode("Pop", "", "", ""),
           CompilerOpcode("right", "", "", ""),
           CompilerOpcode("Jump", "", "try_unwrap_end", "") >>,
     try_unwrap_end |-> <<>>]

\* The values on the operand stack: <<kind, what>>.
StackValue(kind, what) == <<kind, what>>
BoolValue(b) == StackValue("Bool", IF b THEN "true" ELSE "false")

\* The stack without its n topmost values, and its topmost value.
Dropped(stack, n) == SubSeq(stack, 1, Len(stack) - n)
TopOf(stack) == stack[Len(stack)]

\* The execution loop on one opcode of the expression: the frame u after it.
\*   left, right        the operand's code leaves its value on the stack
\*   PushBuiltinTy      pushes the builtin type
\*   ReadAttribute      replaces the value on top by its attribute
\*   Call(1)            pops the function and its argument, pushes the result:
\*                      Result.try_unwrap_protocol answers a Result with itself
\*   TryUnwrapProtocol  (FLAG_TO_CALLER) Ok(x) becomes x and true, Err(e)
\*                      becomes e and false
\*   JumpConditionally  pops the flag and goes to one of its blocks
execute(u, op) ==
    LET next == [u EXCEPT !.idx = @ + 1] IN
    CASE op.op = "left" -> [next EXCEPT !.stack = Append(@, u.left)]
      [] op.op = "right" ->
           [next EXCEPT !.stack = Append(@, u.right), !.rightRan = TRUE, !.atRight = u.stack]
      [] op.op = "PushBuiltinTy" -> [next EXCEPT !.stack = Append(@, StackValue("Type", op.arg))]
      [] op.op = "ReadAttribute" ->
           [next EXCEPT !.stack = Append(Dropped(@, 1), StackValue("Function", op.arg))]
      [] op.op = "Call" ->
           [next EXCEPT !.stack = Append(Dropped(@, 2), u.stack[Len(u.stack) - 1])]
      [] op.op = "TryUnwrapProtocol" ->
           [next EXCEPT !.stack =
               Dropped(@, 1) \o <<StackValue("Int", TopOf(u.stack)[2]),
                                  BoolValue(TopOf(u.stack)[1] = "Ok")>>]
      [] op.op = "JumpConditionally" ->
           [u EXCEPT !.stack = Dropped(@, 1), !.idx = 1,
                     !.block = IF TopOf(u.stack) = BoolValue(TRUE) THEN op.to ELSE op.else_to]
      [] op.op = "Pop" -> [next EXCEPT !.stack = Dropped(@, 1)]
      [] OTHER -> [u EXCEPT !.idx = 1, !.block = op.to]

(***************************************************************************)
(* opcodes/sidecar.rs: the miss count of an inline cache                   *)
(***************************************************************************)

\* ReadAttributeSidecar::MAXIMUM_ALLOWED_MISSES.
MAXIMUM_ALLOWED_MISSES == 16

\* What a read at the site gives: the site and its sidecar after it.
SiteRead(st, sc, kind, recv, value) ==
    [site |-> [st EXCEPT !.kind = kind, !.recv = recv, !.value = value], sidecar |-> sc]

\* A miss at the site, counted.
Missed(st) == [st EXCEPT !.misses = @ + 1, !.total = @ + 1]

\* ReadAttributeSymbol at a site with one slip: "forget" clears the miss
\* count with the sidecar, so that the site caches again; "stale" keeps the
\* last shape and slot in the cleared sidecar; "keep" leaves the sidecar of
\* a miss as it was.
site_read_variant(st, sc, recv, cached, resolved, full, bug) ==
    IF st.megamorphic THEN SiteRead(st, sc, "megamorphic", recv, full)
    ELSE IF sc.present /\ cached # None THEN SiteRead(st, sc, "hit", recv, cached)
    ELSE IF ~resolved.some THEN SiteRead(st, sc, "unresolved", recv, full)
    ELSE IF st.misses < MAXIMUM_ALLOWED_MISSES
    THEN SiteRead(Missed(st),
                  IF bug = "keep" /\ sc.present THEN sc
                  ELSE [present |-> TRUE, shape_id |-> resolved.sid, slot_id |-> resolved.slot],
                  "miss", recv, full)
    ELSE IF bug = "forget"
    THEN SiteRead([st EXCEPT !.misses = 0, !.total = MAXIMUM_ALLOWED_MISSES + 1],
                  [present |-> FALSE, shape_id |-> 0, slot_id |-> 0], "cleared", recv, full)
    ELSE SiteRead([st EXCEPT !.megamorphic = TRUE, !.total = MAXIMUM_ALLOWED_MISSES + 1],
                  IF bug = "stale" THEN sc ELSE [present |-> FALSE, shape_id |-> 0, slot_id |-> 0],
                  "cleared", recv, full)

site_read_forget(st, sc, recv, cached, resolved, full) ==
    site_read_variant(st, sc, recv, cached, resolved, full, "forget")
site_read_stale(st, sc, recv, cached, resolved, full) ==
    site_read_variant(st, sc, recv, cached, resolved, full, "stale")
site_read_keep(st, sc, recv, cached, resolved, full) ==
    site_read_variant(st, sc, recv, cached, resolved, full, "keep")

\* ReadAttributeSymbol at a site: st is the site, sc its sidecar, cached what
\* read_slot gives for the sidecar, resolved what resolve_to_slot gives and
\* full what read_attribute gives on the value recv.
\*   a megamorphic site        the full lookup, the sidecar stays cleared
\*   a hit                     the slot the sidecar names
\*   a miss below the bound    the full lookup, the sidecar rewritten
\*   a miss at the bound       the full lookup, the site becomes megamorphic
site_read(st, sc, recv, cached, resolved, full) ==
    IF st.megamorphic THEN SiteRead(st, sc, "megamorphic", recv, full)
    ELSE IF sc.present /\ cached # None THEN SiteRead(st, sc, "hit", recv, cached)
    ELSE IF ~resolved.some THEN SiteRead(st, sc, "unresolved", recv, full)
    ELSE IF st.misses < MAXIMUM_ALLOWED_MISSES
    THEN SiteRead(Missed(st),
                  [present |-> TRUE, shape_id |-> resolved.sid, slot_id |-> resolved.slot],
                  "miss", recv, full)
    ELSE SiteRead([st EXCEPT !.megamorphic = TRUE, !.total = MAXIMUM_ALLOWED_MISSES + 1],
                  [present |-> FALSE, shape_id |-> 0, slot_id |-> 0], "cleared", recv, full)

(***************************************************************************)
(* mixin_includer.rs, runtime_value/mixin.rs, enumeration.rs: mixins       *)
(***************************************************************************)

\* The mixins of the model, and the types that include mixins: the mixins
\* themselves and one enum.
MixinNames == {"A", "B"}
MixEnum == "E"
MixTypes == MixinNames \cup {MixEnum}

\* The name programs of the model bind in member tables; next is bound
\* nowhere.
MixSym == INTERNED_ATTR_MSG

\* A call whose recursion does not return: the stack of the process overflows.
Overflow == <<"StackOverflow", "", "">>

\* The depth of nested load_named_value or isa_mixin calls at which a mixin
\* is visited that is already on the call stack, with the same arguments: from
\* there the recursion repeats itself and does not return.
StackDepth == Cardinality(MixTypes) + 1

\* The world of the mixin model as the operators below take it.
MixWorld(shs, ents, incl) == [entries |-> ents, includes |-> incl, shapes |-> shs]

RECURSIVE Mixin_load_named_value(_, _, _, _)
RECURSIVE MixinIncluder_load_variant(_, _, _, _, _, _)

\* MixinIncluder::load_named_value, the scan of mixins from index i on:
\* self.mixins.iter().rev().find_map(...).  Variants with one slip each:
\*   "forward" the list is scanned from the first included to the last.
MixinIncluder_load_variant(w, mixins, i, name, fuel, bug) ==
    IF i = 0 \/ i > Len(mixins) THEN None
    ELSE LET r == Mixin_load_named_value(w, mixins[i], name, fuel) IN
         IF r # None THEN r
         ELSE MixinIncluder_load_variant(w, mixins,
                  IF bug = "forward" THEN i + 1 ELSE i - 1, name, fuel, bug)

MixinIncluder_load_forward(w, mixins, name, fuel) ==
    MixinIncluder_load_variant(w, mixins, 1, name, fuel, "forward")

\* MixinIncluder::load_named_value.
MixinIncluder_load_named_value(w, mixins, name, fuel) ==
    MixinIncluder_load_variant(w, mixins, Len(mixins), name, fuel, "")

\* MixinImpl::load_named_value: the mixin's entries, else its includes.
Mixin_load_named_value(w, m, name, fuel) ==
    IF fuel = 0 THEN Overflow
    ELSE LET val == ObjectBox_read(w.shapes, w.entries[m], name) IN
         IF val # None THEN val
         ELSE MixinIncluder_load_named_value(w, w.includes[m], name, fuel - 1)

\* EnumImpl::load_named_value with a slip: the included mixins are consulted
\* before the enum's entries.
Enum_load_mixins_first(w, e, name) ==
    LET mv == MixinIncluder_load_named_value(w, w.includes[e], name, StackDepth) IN
    IF mv # None THEN mv ELSE ObjectBox_read(w.shapes, w.entries[e], name)

\* EnumImpl::load_named_value: the enum's entries, else its includes.
Enum_load_named_value(w, e, name) ==
    LET nv == ObjectBox_read(w.shapes, w.entries[e], name) IN
    IF nv # None THEN nv
    ELSE MixinIncluder_load_named_value(w, w.includes[e], name, StackDepth)

\* load_named_value of a type of the model.
Type_load_named_value(w, t, name) ==
    IF t = MixEnum THEN Enum_load_named_value(w, t, name)
    ELSE Mixin_load_named_value(w, t, name, StackDepth)

RECURSIVE Mixin_isa_mixin(_, _, _, _)
RECURSIVE MixinIncluder_contains(_, _, _, _, _)

\* MixinIncluder::contains, the loop from index i on: "true", "false", or
\* "overflow" when a call of the loop does not return.
MixinIncluder_contains(incl, mixins, i, mixin, fuel) ==
    IF i > Len(mixins) THEN "false"
    ELSE LET r == Mixin_isa_mixin(incl, mixins[i], mixin, fuel) IN
         IF r # "false" THEN r
         ELSE MixinIncluder_contains(incl, mixins, i + 1, mixin, fuel)

\* Mixin::isa_mixin: self == mixin || self.imp.isa_mixin(mixin).
Mixin_isa_mixin(incl, self, mixin, fuel) ==
    IF fuel = 0 THEN "overflow"
    ELSE IF self = mixin THEN "true"
    ELSE MixinIncluder_contains(incl, incl[self], 1, mixin, fuel - 1)

\* EnumImpl::isa_mixin.
Enum_isa_mixin(incl, e, mixin) ==
    MixinIncluder_contains(incl, incl[e], 1, mixin, StackDepth)

\* isa_mixin of a type of the model.
Type_isa_mixin(incl, t, mixin) ==
    IF t = MixEnum THEN Enum_isa_mixin(incl, t, mixin)
    ELSE Mixin_isa_mixin(incl, t, mixin, StackDepth)

\* MixinIncluder::include.
include(mixins, mixin) == Append(mixins, mixin)

(***************************************************************************)
(* runtime_value/enumeration.rs, enum_case.rs: the cases of an enum        *)
(***************************************************************************)

INTERNED_CASE_VARARGS == 39
INTERNED_CASE_BOUNDED == 40

\* The enums of the model, the names of their cases and the payload types a
\* case declares ("" is None).
Enums == {"E", "D"}
CaseSyms == {INTERNED_CASE_VARARGS, INTERNED_CASE_BOUNDED}
PayloadTypes == {"", "Int"}

\* EnumCase {name, payload_type}.
EnumCase(name, payload_type) == [name |-> name, payload_type |-> payload_type]

\* EnumImpl::new: no case, the empty case shape.
EnumDefault == [case_shape |-> EMPTY_SHAPE_INDEX, cases |-> <<>>]

\* Option<RuntimeValue> of a payload.
NoEnumPayload == [some |-> FALSE, v |-> ""]
SomeEnumPayload(v) == [some |-> TRUE, v |-> v]

\* EnumValueImpl {enumm, case, payload}, and the value that stands for None.
EnumValueImpl(enumm, case, payload) ==
    [case |-> case, enumm |-> enumm, payload |-> payload]
NoEnumValue == EnumValueImpl("", 0, NoEnumPayload)

\* EnumImpl::add_case with a slip: a case is always pushed.
add_case_always_push(shs, en, case) ==
    LET t == transition(shs, en.case_shape, case.name) IN
    [shapes |-> t.shapes,
     en |-> [case_shape |-> t.sid, cases |-> Append(en.cases, case)],
     panic |-> FALSE, ret |-> t.slot]

\* EnumImpl::add_case: the registry and the enum after the call and the
\* index it returns; panic is the "enum cases should grow sequentially"
\* branch (or a panic inside transition).
add_case(shs, en, case) ==
    LET t == transition(shs, en.case_shape, case.name)
        slot_id == t.slot IN
    IF t.how = "panic"
    THEN [shapes |-> shs, en |-> en, panic |-> TRUE, ret |-> 0]
    ELSE IF slot_id = Len(en.cases)
    THEN [shapes |-> t.shapes,
          en |-> [case_shape |-> t.sid, cases |-> Append(en.cases, case)],
          panic |-> FALSE, ret |-> slot_id]
    ELSE IF slot_id < Len(en.cases)
    THEN [shapes |-> t.shapes,
          en |-> [case_shape |-> t.sid,
                  cases |-> [en.cases EXCEPT ![slot_id + 1] = case]],
          panic |-> FALSE, ret |-> slot_id]
    ELSE [shapes |-> t.shapes, en |-> [en EXCEPT !.case_shape = t.sid],
          panic |-> TRUE, ret |-> 0]

\* EnumImpl::get_case_by_idx: Option<EnumCase>.
get_case_by_idx(en, idx) ==
    IF idx + 1 \in DOMAIN en.cases
    THEN [some |-> TRUE, v |-> en.cases[idx + 1]]
    ELSE [some |-> FALSE, v |-> EnumCase(0, "")]

\* EnumImpl::get_idx_of_case_by_symbol: Option<usize>.
get_idx_of_case_by_symbol(shs, en, name) == resolve_slot(shs, en.case_shape, name)

\* Enum::make_value with a slip: the payload is not compared with what the
\* case declares.
Enum_make_value_any_payload(ens, e, cidx, payload) ==
    IF get_case_by_idx(ens[e], cidx).some
    THEN [some |-> TRUE, v |-> EnumValueImpl(e, cidx, payload)]
    ELSE [some |-> FALSE, v |-> NoEnumValue]

\* Enum::make_value on the enum e: Option<EnumValue>.
Enum_make_value(ens, e, cidx, payload) ==
    LET case == get_case_by_idx(ens[e], cidx) IN
    IF case.some
    THEN IF (case.v.payload_type # "") = payload.some
         THEN [some |-> TRUE, v |-> EnumValueImpl(e, cidx, payload)]
         ELSE [some |-> FALSE, v |-> NoEnumValue]
    ELSE [some |-> FALSE, v |-> NoEnumValue]

\* EnumValue::get_container_enum, get_case_index and get_payload of a value
\* make_value has produced.
EnumValue_get_container_enum(v) == v.enumm
EnumValue_get_case_index(v) == v.case
EnumValue_get_payload(v) == v.payload

(***************************************************************************)
(* The state machine                                                       *)
(***************************************************************************)

\* The number of attribute writes of one run.
MaxWrites == 4
\* The number of attribute writes of one run over every variant.
MaxAttrWrites == 2

\* The one ReadAttributeSymbol site of the model reads this symbol.
SiteSym == INTERNED_ATTR_MSG

NoWrite == [done |-> FALSE, recv |-> "", sym |-> 0, val |-> None, ok |-> FALSE,
            panic |-> FALSE, err |-> <<"", 0>>]
NoTrans == [done |-> FALSE, cur |-> 0, name |-> 0, sid |-> 0, slot |-> 0,
            how |-> "none"]
NoRead == [done |-> FALSE, recv |-> "", cached |-> None, uncached |-> None]
NoSidecar == [present |-> FALSE, shape_id |-> 0, slot_id |-> 0]

InitObjects ==
    /\ shapes = ShapesDefault
    /\ boxes = [b \in Receivers |-> ObjectBoxDefault]
    /\ written = [b \in Receivers |-> <<>>]
    /\ sidecar = NoSidecar
    /\ lastWrite = NoWrite
    /\ lastTrans = NoTrans
    /\ lastRead = NoRead

NoDispatch == [done |-> FALSE, lhs |-> "", rhs |-> "", fwd |-> None, rev |-> None,
               same |-> FALSE, out |-> NeedTryROperator, calls |-> <<>>]

NoEquals == [done |-> FALSE, lhs |-> "", rhs |-> "", fwd |-> None, rev |-> None,
             same |-> FALSE, res |-> FALSE, calls |-> <<>>, payloads |-> FALSE]

InitOperators ==
    /\ disp = NoDispatch
    /\ eqc = NoEquals

NoVmError == VmError(Reason("", "", 0, 0, ""), NoLoc)
NoExcCall == [op |-> "none", err |-> NoVmError, ok |-> FALSE, ret |-> NoVmError,
              argc |-> ArgcMismatchStruct]

InitExceptions ==
    /\ rtErrArgc = ArgcMismatchStruct
    /\ exc = from_value(ProgramValue)
    /\ excCall = NoExcCall

InitVm ==
    /\ frames = <<NewFrame>>
    /\ vmstate = Running
    /\ vmop = "none"
    /\ steps = 0

NoModCall == [op |-> "none", mod |-> "", src |-> "", name |-> "", ok |-> TRUE, err |-> ""]

\* Modules are created with no named values.
InitModules ==
    /\ mods = [m \in {"m1", "m2"} |-> EmptyMap]
    /\ modCall = NoModCall

NoDecode == [ok |-> TRUE, err |-> "", tag |-> 0, val |-> 0, op |-> NoOpcode, start |-> 0]

\* No reader has been made yet.
InitDecode ==
    /\ rdr = [data |-> <<>>, idx |-> 0]
    /\ dec = NoDecode
    /\ decoded = [opcodes |-> <<>>, status |-> "none"]

\* No module has been loaded yet.
InitLoad ==
    /\ cmod = [constants |-> <<>>, entry |-> <<>>]
    /\ rmod = [constants |-> <<>>, entry |-> <<>>, status |-> "none"]

\* No `??` expression is being evaluated.
InitUnwrap ==
    uw = [block |-> "none", idx |-> 1, stack |-> <<>>, base |-> <<>>,
          left |-> <<"", "">>, right |-> <<"", "">>, rightRan |-> FALSE, atRight |-> <<>>]

\* The site has not been reached yet: no miss is counted.
InitSite ==
    site = [misses |-> 0, megamorphic |-> FALSE, total |-> 0, kind |-> "none",
            recv |-> "", value |-> None]

\* No mixin has a member and no type includes a mixin.
InitMixins ==
    /\ mshapes = ShapesDefault
    /\ entries = [t \in MixTypes |-> ObjectBoxDefault]
    /\ includes = [t \in MixTypes |-> <<>>]
    /\ mwrites = 0

\* Two enums without cases.
InitEnums ==
    /\ cshapes = ShapesDefault
    /\ enums = [e \in Enums |-> EnumDefault]
    /\ added = [e \in Enums |-> <<>>]
    /\ ecall = [op |-> "new", enumm |-> "", name |-> 0, cidx |-> 0,
                payload |-> NoEnumPayload, some |-> FALSE, val |-> NoEnumValue]

InitLate ==
    /\ InitModules /\ InitDecode /\ InitLoad /\ InitUnwrap /\ InitSite
    /\ InitMixins /\ InitEnums

Init == InitInterner /\ InitObjects /\ InitOperators /\ InitExceptions /\ InitVm /\ InitLate

RECURSIVE SumLen(_, _)
SumLen(f, S) ==
    IF S = {} THEN 0
    ELSE LET x == CHOOSE y \in S : TRUE IN Len(f[x]) + SumLen(f, S \ {x})

TotalWrites == SumLen(written, Receivers)

\* WriteAttributeSymbol: RuntimeValue::write_attribute on r.
WriteAttribute(r, s, v) ==
    LET w == write_attribute(shapes, boxes, r, s, v) IN
    /\ shapes' = w.shapes
    /\ boxes' = w.boxes
    /\ written' = IF w.ok THEN [written EXCEPT ![r] = Append(@, s)] ELSE written
    /\ lastWrite' = [done |-> TRUE, recv |-> r, sym |-> s, val |-> v, ok |-> w.ok,
                     panic |-> w.panic,
                     err |-> IF w.ok THEN <<"", 0>>
                             ELSE AttributeError_to_vm_error_reason(
                                      "ValueHasNoAttributes", s)]
    /\ lastTrans' = IF w.ok
                    THEN [done |-> TRUE, cur |-> boxes[r].shape, name |-> s,
                          sid |-> w.t.sid, slot |-> w.t.slot, how |-> w.t.how]
                    ELSE lastTrans
    /\ UNCHANGED <<sidecar, lastRead>>

\* A miss at the site: RuntimeValue::resolve_to_slot on o, whose shape and
\* slot the site records in its sidecar.
ResolveToSlot(o) ==
    LET r == resolve_to_slot(shapes, boxes, o, SiteSym) IN
    /\ r.some
    /\ sidecar' = [present |-> TRUE, shape_id |-> r.sid, slot_id |-> r.slot]
    /\ UNCHANGED <<shapes, boxes, written, lastWrite, lastTrans, lastRead>>

\* A read at the site with a sidecar: RuntimeValue::read_slot on o, recorded
\* with what RuntimeValue::read_attribute returns for the same read.
ReadSlot(o) ==
    /\ sidecar.present
    /\ lastRead' = [done |-> TRUE, recv |-> o,
                    cached |-> read_slot(boxes, o, sidecar.slot_id, sidecar.shape_id),
                    uncached |-> read_attribute(shapes, boxes, o, SiteSym)]
    /\ UNCHANGED <<shapes, boxes, written, sidecar, lastWrite, lastTrans>>

\* The values a program of the object model stores.
CacheVals == {IntegerVal("1"), FunctionVal("instance")}

\* Attribute writes on two objects of S and on S's member table.
Next ==
    /\ TotalWrites < MaxWrites
    /\ \E r \in Objects \cup {"S"}, s \in Syms, v \in CacheVals : WriteAttribute(r, s, v)
    /\ UNCHANGED <<internerVars, opVars>>

Spec == Init /\ [][Next]_vars

\* The same writes, with the reads of one ReadAttributeSymbol site.
NextCache ==
    \/ Next
    \/ /\ \E o \in Objects : ResolveToSlot(o)
       /\ UNCHANGED <<internerVars, opVars>>
    \/ /\ \E o \in Objects : ReadSlot(o)
       /\ UNCHANGED <<internerVars, opVars>>

SpecCache == Init /\ [][NextCache]_vars

\* Attribute writes on every variant that has an attribute store.
NextAttr ==
    /\ TotalWrites < MaxAttrWrites
    /\ \E r \in Receivers, s \in Syms, v \in Vals : WriteAttribute(r, s, v)
    /\ UNCHANGED <<internerVars, opVars>>

SpecAttr == Init /\ [][NextAttr]_vars

\* The values of the model that have no attribute store: an enum value, a
\* bound function (of the object o1), a code object, an opaque value and a
\* type check.
NoStoreValues == {"e1", "bf", "co", "op", "tc"}

\* Attribute writes on the object o1, on the member table of its struct and
\* on the values without an attribute store.
NextValue ==
    /\ TotalWrites < MaxAttrWrites
    /\ \E r \in {"o1", "S"} \cup NoStoreValues, s \in Syms, v \in Vals :
           WriteAttribute(r, s, v)
    /\ UNCHANGED <<internerVars, opVars>>

SpecValue == Init /\ [][NextValue]_vars

\* Calls on one Interner.  resolve is called with well-known symbols, with
\* the symbols a program can be issued and with one that is never issued.
ResolveArgs ==
    {INTERNED_ATTR_MSG} \cup ((Len(WellKnownNames) - 1) .. MaxSymbols)

NextInterner ==
    \/ /\ \E s \in Names : Intern(s)
       /\ UNCHANGED <<objectVars, opVars>>
    \/ /\ \E s \in Names : Lookup(s)
       /\ UNCHANGED <<objectVars, opVars>>
    \/ /\ \E k \in ResolveArgs : Resolve(k)
       /\ UNCHANGED <<objectVars, opVars>>

SpecInterner == Init /\ [][NextInterner]_vars

\* The values a binary operator is applied to: two objects of S and an Int.
Operands == {"o1", "o2", "n"}
\* The values whose attribute store holds operator methods: the member table
\* of S and the Int.
MethodOwners == {"S", "n"}
OpSyms == {INTERNED_OP_IMPL_ADD, INTERNED_OP_IMPL_RADD}

\* The Add opcode on operands that are not both numbers: RuntimeValue::add.
Add(lhs, rhs) ==
    LET r == add(shapes, boxes, lhs, rhs) IN
    /\ disp' = [done |-> TRUE, lhs |-> lhs, rhs |-> rhs, fwd |-> r.fwd, rev |-> r.rev,
                same |-> r.same, out |-> r.out, calls |-> r.calls]
    /\ UNCHANGED <<internerVars, objectVars, eqc, excVars, vmVars, lateVars>>

\* A program defines each operator method once (a write of the method to the
\* member table of S or to the Int), and applies the operator.
NextDispatch ==
    \/ /\ TotalWrites < MaxAttrWrites
       /\ \E r \in MethodOwners, s \in OpSyms, v \in MethodVals :
            /\ ~resolve_slot(shapes, boxes[r].shape, s).some
            /\ WriteAttribute(r, s, v)
       /\ UNCHANGED <<internerVars, opVars>>
    \/ \E lhs \in Operands, rhs \in Operands : Add(lhs, rhs)

SpecDispatch == Init /\ [][NextDispatch]_vars

\* What the comparison of the payloads of two values gives: both absent, or
\* both present and equal by RuntimeValue::equals.
payloads_equal(shs, bxs, a, b) ==
    LET pa == IF a \in EnumValues THEN get_payload(a) ELSE [some |-> FALSE, v |-> ""]
        pb == IF b \in EnumValues THEN get_payload(b) ELSE [some |-> FALSE, v |-> ""] IN
    IF pa.some /\ pb.some THEN equals(shs, bxs, pa.v, pb.v).res
    ELSE ~pa.some /\ ~pb.some

\* The bodies of the _op_impl_equals methods programs of the model define.
EqBodies == {"ret_true", "ret_false", "throw_unimpl", "vm_error"}
EqMethodVals == {FunctionVal(b) : b \in EqBodies}

\* The Equal opcode: RuntimeValue::equals.
Equal(lhs, rhs) ==
    LET r == equals(shapes, boxes, lhs, rhs) IN
    /\ eqc' = [done |-> TRUE, lhs |-> lhs, rhs |-> rhs, fwd |-> r.fwd, rev |-> r.rev,
               same |-> r.same, res |-> r.res, calls |-> r.calls,
               payloads |-> payloads_equal(shapes, boxes, lhs, rhs)]
    /\ UNCHANGED <<internerVars, objectVars, disp, excVars, vmVars, lateVars>>

\* A program defines _op_impl_equals once for S and once for the Int n, and
\* compares values.
NextEquals ==
    \/ /\ TotalWrites < MaxAttrWrites
       /\ \E r \in MethodOwners, v \in EqMethodVals :
            /\ ~resolve_slot(shapes, boxes[r].shape, INTERNED_OP_IMPL_EQUALS).some
            /\ WriteAttribute(r, INTERNED_OP_IMPL_EQUALS, v)
       /\ UNCHANGED <<internerVars, opVars>>
    \/ \E lhs \in EqOperands, rhs \in EqOperands : Equal(lhs, rhs)

SpecEquals == Init /\ [][NextEquals]_vars

\* The number of entries of a backtrace.
MaxBacktrace == 3

\* The source pointers of the model.
Locs == {"L1", "L2"}

\* The reasons of the VM errors of the model: every variant of
\* VmErrorReason, NoSuchSymbol once with a symbol the interner resolves and
\* once with one it does not.
Reasons ==
    {Reason(t, "", 0, 0, "") :
        t \in {"DivisionByZero", "EnumWithoutPayload", "UnexpectedType", "EmptyStack",
               "IncompleteInstruction", "UnterminatedBytecode", "InvalidBinding",
               "InvalidControlInstruction", "UnexpectedVmState",
               "InvalidMainSignature", "BytecodeTooLarge",
               "TooManyInternedSymbols", "VmHalted"}}
    \cup {Reason(t, "x", 0, 0, "") :
            t \in {"AssertFailed", "CircularImport", "ImportNotAvailable",
                   "NoSuchIdentifier", "NoSuchCase", "OperationFailed"}}
    \cup {Reason(t, "", 2, 0, "") :
            t \in {"IndexOutOfBounds", "NoSuchModuleConstant", "UplevelOutOfBounds",
                   "UnknownOpcode", "InvalidVmOperand"}}
    \cup {Reason("MismatchedArgumentCount", "", 1, 2, "")}
    \cup {Reason("NoSuchSymbol", "", n, 0, k) :
            n \in {INTERNED_ATTR_MSG, MaxSymbols}, k \in {"Identifier", "Case"}}

\* A VM error reaches the exception channel: VmException::from_vmerror.
FromVmError(err) ==
    LET r == from_vmerror(Interner, shapes, rtErrArgc, err) IN
    /\ exc' = r.exception
    /\ excCall' = [op |-> "from_vmerror", err |-> err, ok |-> r.ok, ret |-> r.err,
                   argc |-> rtErrArgc]
    /\ shapes' = r.shapes
    /\ UNCHANGED <<internerVars, boxes, written, sidecar, lastWrite, lastTrans,
                   lastRead, disp, eqc, rtErrArgc, vmVars, lateVars>>

\* A program throws a value of its own: VmException::from_value.
FromValue ==
    /\ exc' = from_value(ProgramValue)
    /\ excCall' = [NoExcCall EXCEPT !.op = "from_value", !.ok = TRUE]
    /\ UNCHANGED <<internerVars, objectVars, disp, eqc, rtErrArgc, vmVars, lateVars>>

\* The exception passes a source location: VmException::thrown_at.
ThrownAt(loc) ==
    /\ excCall.ok
    /\ Len(exc.backtrace) < MaxBacktrace
    /\ exc' = thrown_at(exc, loc)
    /\ excCall' = [excCall EXCEPT !.op = "thrown_at"]
    /\ UNCHANGED <<internerVars, objectVars, disp, eqc, rtErrArgc, vmVars, lateVars>>

\* A program writes the attribute ArgcMismatch of RuntimeError:
\* RuntimeValue::write_attribute on the type.
WriteArgcMismatch(v) ==
    /\ rtErrArgc' = v
    /\ UNCHANGED <<internerVars, objectVars, disp, eqc, exc, excCall, vmVars, lateVars>>

NextException ==
    \/ \E reason \in Reasons, loc \in {NoLoc} \cup {SomeLoc(l) : l \in Locs} :
         FromVmError(VmError(reason, loc))
    \/ FromValue
    \/ \E loc \in Locs : ThrownAt(loc)
    \/ \E v \in {ArgcMismatchStruct, IntegerVal("1")} : WriteArgcMismatch(v)

SpecException == Init /\ [][NextException]_vars

\* The depth of the call stack, of an operand stack and of a try-block stack.
MaxFrames == 2
MaxStack == 2
MaxTries == 2

\* The number of instructions of a run.
MaxSteps == 7

\* The values on the operand stacks.
StackVals == {"true", "false"}

Top == frames[Len(frames)]

\* The operand stack holds a value pushed after the innermost active try block
\* was entered: bytecode pops nothing that was pushed before TryEnter.
HasOperand ==
    Len(Top.stack) > (IF Top.tries = <<>> THEN 0 ELSE Top.tries[Len(Top.tries)].sp)
SetTop(f) == [frames EXCEPT ![Len(frames)] = f]

\* The frames and the state of the VM after an instruction.
SetVm(r) ==
    /\ frames' = r.frames
    /\ vmstate' = r.vmstate

\* One instruction is executed by a VM that has not terminated.
Step(status, name) ==
    /\ vmstate.status = status
    /\ steps < MaxSteps
    /\ steps' = steps + 1
    /\ vmop' = name
VmRest == <<internerVars, objectVars, disp, eqc, excVars, lateVars>>

\* Push and its like: a value is pushed.
Push(v) ==
    /\ Step("running", "Push")
    /\ Len(Top.stack) < MaxStack
    /\ frames' = SetTop([Top EXCEPT !.pc = 0, !.stack = Append(@, v)])
    /\ UNCHANGED <<vmstate, VmRest>>

\* Pop.
Pop ==
    /\ Step("running", "Pop")
    /\ HasOperand
    /\ frames' = SetTop([Top EXCEPT !.pc = 0,
                                    !.stack = SubSeq(@, 1, Len(@) - 1)])
    /\ UNCHANGED <<vmstate, VmRest>>

\* TryEnter(catch-pc).
TryEnter ==
    /\ Step("running", "TryEnter")
    /\ Len(Top.tries) < MaxTries
    /\ frames' = SetTop([Top EXCEPT !.pc = 0,
                           !.tries = Append(@, TryBlock(CatchPc(Len(@) + 1),
                                                        Len(Top.stack)))])
    /\ UNCHANGED <<vmstate, VmRest>>

\* TryExit.
TryExit ==
    /\ Step("running", "TryExit")
    /\ Top.tries # <<>>
    /\ frames' = SetTop([Top EXCEPT !.pc = 0, !.tries = SubSeq(@, 1, Len(@) - 1)])
    /\ UNCHANGED <<vmstate, VmRest>>

\* Call: a new frame.
Call ==
    /\ Step("running", "Call")
    /\ Len(frames) < MaxFrames
    /\ frames' = Append(SetTop([Top EXCEPT !.pc = 0]), NewFrame)
    /\ UNCHANGED <<vmstate, VmRest>>

\* ReturnUnit: the frame is popped.
Return ==
    /\ Step("running", "Return")
    /\ Len(frames) > 1
    /\ frames' = SubSeq(frames, 1, Len(frames) - 1)
    /\ UNCHANGED <<vmstate, VmRest>>

\* Throw: the top of the stack is the exception.
Throw ==
    /\ Step("running", "Throw")
    /\ HasOperand
    /\ SetVm(raise(SetTop([Top EXCEPT !.stack = SubSeq(@, 1, Len(@) - 1)]),
                   Top.stack[Len(Top.stack)]))
    /\ UNCHANGED VmRest

\* The exception of a popped frame is thrown again in the caller: the
\* unwinding of one Throw, not an instruction of its own.
Rethrow ==
    /\ vmstate.status = "unwinding"
    /\ vmop' = "Rethrow"
    /\ UNCHANGED steps
    /\ SetVm(raise(frames, vmstate.exc))
    /\ UNCHANGED VmRest

\* Assert(msg): pops a boolean; false is the VM error AssertFailed(msg).
AssertOp ==
    /\ Step("running", "Assert")
    /\ HasOperand
    /\ Top.stack[Len(Top.stack)] \in {"true", "false"}
    /\ LET popped == SetTop([Top EXCEPT !.pc = 0, !.stack = SubSeq(@, 1, Len(@) - 1)]) IN
       IF Top.stack[Len(Top.stack)] = "true"
       THEN /\ frames' = popped
            /\ UNCHANGED vmstate
       ELSE SetVm(vm_error(popped, Interner, shapes, rtErrArgc,
                           Reason("AssertFailed", "msg", 0, 0, "")))
    /\ UNCHANGED VmRest

NextThrow ==
    \/ \E v \in StackVals : Push(v)
    \/ Pop
    \/ TryEnter
    \/ TryExit
    \/ Call
    \/ Return
    \/ Throw
    \/ Rethrow
    \/ AssertOp

SpecThrow == Init /\ [][NextThrow]_vars /\ WF_vars(Rethrow)

\* The modules and the names of their values; the names are interned, so
\* that an attribute write on a module value resolves them.
ModIds == {"m1", "m2"}
ModNames == {"msg", "next"}
ModSyms == {INTERNED_ATTR_MSG, INTERNED_ATTR_NEXT}

ModCall(op, m, src, name, ok, err) ==
    [op |-> op, mod |-> m, src |-> src, name |-> name, ok |-> ok, err |-> err]

\* TypedefNamed: RuntimeModule::typedef_named_value.
Typedef(m, name, ty) ==
    /\ mods' = [mods EXCEPT ![m] = typedef_named_value(@, name, ty)]
    /\ modCall' = ModCall("typedef", m, "", name, TRUE, "")
    /\ UNCHANGED modRest

\* SetMods(m, r): module m holds the values of r, the call is recorded.
SetMods(op, m, src, name, r) ==
    /\ mods' = [mods EXCEPT ![m] = r.values]
    /\ modCall' = ModCall(op, m, src, name, r.ok, r.err)

\* WriteNamed: RuntimeModule::store_typechecked_named_value.
StoreTypechecked(m, name, val) ==
    /\ SetMods("store_typechecked", m, "", name,
               store_typechecked_named_value(mods[m], name, val))
    /\ UNCHANGED modRest

\* RuntimeModule::store_named_value.
StoreNamed(m, name, val) ==
    /\ mods' = [mods EXCEPT ![m] = store_named_value(@, name, val)]
    /\ modCall' = ModCall("store_named", m, "", name, TRUE, "")
    /\ UNCHANGED modRest

\* RuntimeValue::write_attribute on a module value: a symbol that resolves
\* is stored under its name by store_named_value.
WriteModuleAttribute(m, sym, val) ==
    /\ LET attr_name == resolve(Interner, sym) IN
       IF attr_name.some
       THEN /\ mods' = [mods EXCEPT ![m] = store_named_value(@, attr_name.v, val)]
            /\ modCall' = ModCall("write_attribute", m, "", attr_name.v, TRUE, "")
       ELSE /\ mods' = mods
            /\ modCall' = ModCall("write_attribute", m, "", "", FALSE, "ValueHasNoAttributes")
    /\ UNCHANGED modRest

\* LiftModule: RuntimeModule::lift_all_symbols_from_other, with the named
\* values of src in any order.
Lift(m, src) ==
    /\ \E order \in named_values_of_this(mods[src]) :
          SetMods("lift", m, src, "", lift_all_symbols_from_other(mods[m], mods[src], order))
    /\ UNCHANGED modRest

NextModule ==
    \/ \E m \in ModIds, name \in ModNames, ty \in ModTypes : Typedef(m, name, ty)
    \/ \E m \in ModIds, name \in ModNames, val \in ModVals : StoreTypechecked(m, name, val)
    \/ \E m \in ModIds, name \in ModNames, val \in ModVals : StoreNamed(m, name, val)
    \/ \E m \in ModIds, sym \in ModSyms \cup {MaxSymbols}, val \in ModVals :
         WriteModuleAttribute(m, sym, val)
    \/ \E m \in ModIds, src \in ModIds : Lift(m, src)

SpecModule == Init /\ [][NextModule]_vars

\* The byte streams given to the reader: a tag, known or not, and up to
\* MaxOperandBytes bytes after it.
MaxOperandBytes == 4
StreamBytes == {1, 2, 255}
Tags == 0..Len(OpTable)
RECURSIVE ByteSeqs(_)
ByteSeqs(n) ==
    IF n = 0 THEN {<<>>}
    ELSE LET shorter == ByteSeqs(n - 1) IN
         shorter \cup {Append(t, b) : t \in {u \in shorter : Len(u) = n - 1},
                                      b \in StreamBytes}
Streams == {<<>>} \cup {<<tag>> \o tail : tag \in Tags, tail \in ByteSeqs(MaxOperandBytes)}

\* BytecodeReader::try_from, as byte_array_to_opcode_array calls it.
NewReader(bytes) ==
    /\ decoded.status = "none"
    /\ rdr' = [data |-> bytes, idx |-> 0]
    /\ dec' = NoDecode
    /\ decoded' = [opcodes |-> <<>>, status |-> "reading"]
    /\ UNCHANGED decRest

\* The result r of read_opcode in the loop of byte_array_to_opcode_array.
Decoded(r) ==
    /\ rdr' = [rdr EXCEPT !.idx = r.idx]
    /\ dec' = [ok |-> r.ok, err |-> r.err, tag |-> r.tag, val |-> r.val, op |-> r.op,
               start |-> rdr.idx]
    /\ decoded' = IF r.ok THEN [decoded EXCEPT !.opcodes = Append(@, r.op)]
                  ELSE IF r.err = "EndOfStream" THEN [decoded EXCEPT !.status = "accepted"]
                  ELSE [opcodes |-> <<>>, status |-> "rejected"]

\* One turn of the loop of byte_array_to_opcode_array: read_opcode.
ReadOpcode ==
    /\ decoded.status = "reading"
    /\ Decoded(read_opcode(rdr.data, rdr.idx))
    /\ UNCHANGED decRest

NextDecode ==
    \/ decoded.status = "none" /\ \E bytes \in Streams : NewReader(bytes)
    \/ ReadOpcode

SpecDecode == Init /\ [][NextDecode]_vars

\* The compiled modules given to the loader: bodies that read and write
\* attributes through constants that are strings, are not strings or are
\* missing, bodies with symbol opcodes and a truncated body.
RA == TagOf("ReadAttribute")
WA == TagOf("WriteAttribute")
RAS == TagOf("ReadAttributeSymbol")
WAS == TagOf("WriteAttributeSymbol")
RET == TagOf("Return")
CompiledBodies ==
    { <<RET>>, <<RA, 0, 0, RET>>, <<RA, 1, 0, WA, 0, 0>>, <<WA, 1, 0, RET>>,
      <<RA, 2, 0>>, <<RAS, INTERNED_ATTR_MSG, 0, 0, 0>>,
      <<RA, 0, 0, WAS, INTERNED_ATTR_MSG, 0, 0, 0>>, <<RA, 0>> }
ConstantPools ==
    { <<>>, <<StringConst("msg"), StringConst("a")>>,
      <<StringConst("b"), StringConst("c")>>, <<StringConst("d"), IntegerConst>> }
    \cup {<<StringConst("a"), StringConst("b"), CodeObjectConst(body)>> :
            body \in {<<WA, 1, 0, RET>>, <<RA, 0, 0, RA, 1, 0>>,
                      <<WAS, INTERNED_ATTR_MSG, 0, 0, 0>>, <<RA, 3, 0>>}}

\* SetLoaded(cm, r): RuntimeModuleImpl::new(cm) returned r.
SetLoaded(cm, r) ==
    /\ cmod' = cm
    /\ rmod' = [constants |-> r.constants, entry |-> r.entry, status |-> r.status]
    /\ map' = r.in.map
    /\ strings' = r.in.strings

\* RuntimeModule::new: the module is loaded into the VM, whose interner
\* keeps the symbols interned on the way, also when the load fails.
Load(cm) ==
    /\ SetLoaded(cm, RuntimeModuleImpl_new(Interner, cm))
    /\ UNCHANGED <<icall, issued, objectVars, disp, eqc, excVars, vmVars, loadOthers>>

NextLoad ==
    \E entry \in CompiledBodies, constants \in ConstantPools :
        Load([constants |-> constants, entry |-> entry])

SpecLoad == Init /\ [][NextLoad]_vars

\* The operands of the expressions evaluated: left yields Ok(x) or Err(e),
\* right yields an Integer; the stack holds up to MaxBase values before.
MaxBase == 2
UnwrapInts == {"1", "2"}
LeftValues == {StackValue(c, x) : c \in {"Ok", "Err"}, x \in UnwrapInts}
RightValues == {StackValue("Int", x) : x \in UnwrapInts}
RECURSIVE BaseStacks(_)
BaseStacks(n) ==
    IF n = 0 THEN {<<>>}
    ELSE LET shorter == BaseStacks(n - 1) IN
         shorter \cup {Append(t, StackValue("Int", "1")) : t \in {u \in shorter : Len(u) = n - 1}}
         \cup {Append(t, BoolValue(FALSE)) : t \in {u \in shorter : Len(u) = n - 1}}

\* The frame reaches the code of `left ?? right`.
EnterUnwrap(base, left, right) ==
    /\ uw.block \in {"none", "try_unwrap_end"}
    /\ uw' = [block |-> "current", idx |-> 1, stack |-> base, base |-> base,
              left |-> left, right |-> right, rightRan |-> FALSE, atRight |-> <<>>]
    /\ UNCHANGED unwrapRest

\* The execution loop runs the next opcode of the expression.
StepUnwrap ==
    /\ uw.block \in {"current", "try_unwrap_fallback"}
    /\ uw.idx <= Len(TryUnwrapExpression_do_compile[uw.block])
    /\ uw' = execute(uw, TryUnwrapExpression_do_compile[uw.block][uw.idx])
    /\ UNCHANGED unwrapRest

NextUnwrap ==
    \/ \E base \in BaseStacks(MaxBase), left \in LeftValues, right \in RightValues :
         EnterUnwrap(base, left, right)
    \/ StepUnwrap

SpecUnwrap == Init /\ [][NextUnwrap]_vars

\* The attribute writes of the runs that read at the site.
MaxSiteWrites == 3

\* SetSite(r): the read at the site gave r.
SetSite(r) ==
    /\ site' = r.site
    /\ sidecar' = r.sidecar

\* ReadAttributeSymbol at the site on the object o.
ReadSite(o) ==
    /\ SetSite(site_read(site, sidecar, o,
                         read_slot(boxes, o, sidecar.slot_id, sidecar.shape_id),
                         resolve_to_slot(shapes, boxes, o, SiteSym),
                         read_attribute(shapes, boxes, o, SiteSym)))
    /\ UNCHANGED <<shapes, boxes, written, lastWrite, lastTrans, lastRead>>
    /\ UNCHANGED <<internerVars, disp, eqc, excVars, vmVars, siteOthers>>

\* Attribute writes on the two objects, and the reads of the site.
NextSite ==
    \/ /\ TotalWrites < MaxSiteWrites
       /\ \E r \in Objects, s \in Syms : WriteAttribute(r, s, IntegerVal("1"))
       /\ UNCHANGED <<internerVars, opVars>>
    \/ \E o \in Objects : ReadSite(o)

SpecSite == Init /\ [][NextSite]_vars

\* The number of include_mixin calls and of member writes of one run.
MaxIncludes == 3
MaxMixinWrites == 2

\* The values programs of the mixin model bind.
MixVals == DataVals

\* A write to the member table of a mixin or an enum: entries.write.
MixinWrite(t, v) ==
    LET w == ObjectBox_write(mshapes, entries[t], MixSym, v) IN
    /\ mwrites < MaxMixinWrites
    /\ mshapes' = w.shapes
    /\ entries' = [entries EXCEPT ![t] = w.box]
    /\ mwrites' = mwrites + 1
    /\ UNCHANGED <<includes, mixinRest>>

\* Mixin::include_mixin and Enum::include_mixin.
IncludeMixin(t, m) ==
    /\ SumLen(includes, MixTypes) < MaxIncludes
    /\ includes' = [includes EXCEPT ![t] = include(@, m)]
    /\ UNCHANGED <<mshapes, entries, mwrites, mixinRest>>

NextMixin ==
    \/ \E t \in MixTypes, v \in MixVals : MixinWrite(t, v)
    \/ \E t \in MixTypes, m \in MixinNames : IncludeMixin(t, m)

SpecMixin == Init /\ [][NextMixin]_vars

\* The number of add_case calls of one run.
MaxCases == 3

\* The case indexes and payloads make_value is called with: the indexes of
\* the cases an enum can have and one past them; no payload and a payload.
CaseIndexes == 0 .. Cardinality(CaseSyms)
EnumPayloads == {NoEnumPayload, SomeEnumPayload("p")}

\* Enum::add_case.
AddCase(e, name, payload_type) ==
    LET r == add_case(cshapes, enums[e], EnumCase(name, payload_type)) IN
    /\ SumLen(added, Enums) < MaxCases
    /\ cshapes' = r.shapes
    /\ enums' = [enums EXCEPT ![e] = r.en]
    /\ added' = [added EXCEPT ![e] = Append(@, name)]
    /\ ecall' = [op |-> "add_case", enumm |-> e, name |-> name, cidx |-> r.ret,
                 payload |-> NoEnumPayload, some |-> ~r.panic, val |-> NoEnumValue]
    /\ UNCHANGED enumRest

\* Enum::make_value.
MakeValue(e, cidx, payload) ==
    LET r == Enum_make_value(enums, e, cidx, payload) IN
    /\ ecall' = [op |-> "make_value", enumm |-> e, name |-> 0, cidx |-> cidx,
                 payload |-> payload, some |-> r.some, val |-> r.v]
    /\ UNCHANGED <<cshapes, enums, added, enumRest>>

NextEnum ==
    \/ \E e \in Enums, name \in CaseSyms, pt \in PayloadTypes : AddCase(e, name, pt)
    \/ \E e \in Enums, cidx \in CaseIndexes, payload \in EnumPayloads :
          MakeValue(e, cidx, payload)

SpecEnum == Init /\ [][NextEnum]_vars

(***************************************************************************)
(* Properties                                                              *)
(***************************************************************************)

\* C1: whenever the slot read of the site's sidecar returns a value for an
\* object, that value is what read_attribute returns for the site's symbol.
C1_CachedEqualsUncached ==
    sidecar.present =>
        \A o \in Objects :
            LET cached == read_slot(boxes, o, sidecar.slot_id, sidecar.shape_id) IN
            cached # None => cached = read_attribute(shapes, boxes, o, SiteSym)

\* C2 as stated: after a successful write_attribute(o, s, v), read_attribute(o, s)
\* returns v, for every variant with an attribute store and every value.
C2_RoundTrip ==
    (lastWrite.done /\ lastWrite.ok) =>
        read_attribute(shapes, boxes, lastWrite.recv, lastWrite.sym) = lastWrite.val

\* What a read returns for value v stored on receiver r: v itself, except that
\* a function stored on a primitive reads back bound to the primitive (an error
\* for a type method) and a function stored on a type reads back bound to the
\* type when it is a type method (an error otherwise).
ReadBack(r, v) ==
    IF v[1] # "Function" \/ Variant(r) \in {"Object", "List", "Mixin", "Function"}
    THEN v
    ELSE IF Variant(r) = "Integer"
    THEN IF v[2] = "type" THEN Err("InvalidFunctionBinding")
         ELSE <<"BoundFunction", v[2], r>>
    ELSE IF v[2] = "type" THEN <<"BoundFunction", v[2], r>>
         ELSE Err("InvalidFunctionBinding")

\* C2, amended: after a successful write_attribute(o, s, v), read_attribute(o, s)
\* returns v when v is not a function or o is an object, list, mixin or
\* function; a function stored on a primitive or on a type reads back bound to
\* the receiver or fails with InvalidFunctionBinding.
C2_RoundTripAmended ==
    (lastWrite.done /\ lastWrite.ok) =>
        read_attribute(shapes, boxes, lastWrite.recv, lastWrite.sym)
            = ReadBack(lastWrite.recv, lastWrite.val)

\* A function was stored on the Integer, after an earlier write to it, and
\* reads back bound.
C2_Witness ==
    /\ lastWrite.done /\ lastWrite.ok
    /\ lastWrite.recv = "n"
    /\ Len(written["n"]) = MaxAttrWrites
    /\ lastWrite.val = FunctionVal("instance")
    /\ read_attribute(shapes, boxes, "n", lastWrite.sym)[1] = "BoundFunction"

\* The number of distinct names among the first n elements of seq.
DistinctBefore(seq, n) == Cardinality({seq[j] : j \in 1 .. n})

\* The position i is the first occurrence of its name in seq.
FirstOccurrence(seq, i) == \A j \in 1 .. (i - 1) : seq[j] # seq[i]

\* C3: two boxes that start at the empty shape and receive the same sequence
\* of attribute names have the same shape id, whatever was written to other
\* boxes in between.
C3_ShapeDeterminism ==
    \A b1, b2 \in Receivers :
        written[b1] = written[b2] => boxes[b1].shape = boxes[b2].shape

\* Both objects received the same two different names and hold a two-slot shape.
C3_Witness ==
    /\ written["o1"] = written["o2"]
    /\ Len(written["o1"]) = 2
    /\ written["o1"][1] # written["o1"][2]
    /\ boxes["o1"].shape = boxes["o2"].shape
    /\ Len(ShapeAt(shapes, boxes["o1"].shape).reverse_slots) = 2

\* C4 as stated: the slot of the i-th written name, at its first occurrence,
\* is i-1.
C4_SlotIsPosition ==
    \A b \in Receivers : \A i \in DOMAIN written[b] :
        FirstOccurrence(written[b], i) =>
            resolve_slot(shapes, boxes[b].shape, written[b][i]) = SomeInt(i - 1)

\* C4, amended: the slot of a written name is the number of distinct names
\* written before its first occurrence (i-1 when no name before it repeats).
C4_SlotIsFirstOccurrenceRank ==
    \A b \in Receivers : \A i \in DOMAIN written[b] :
        FirstOccurrence(written[b], i) =>
            resolve_slot(shapes, boxes[b].shape, written[b][i])
                = SomeInt(DistinctBefore(written[b], i - 1))

\* A box was written a name twice and then a new name.
C4_Witness ==
    \E b \in Receivers :
        /\ Len(written[b]) = 3
        /\ written[b][1] = written[b][2]
        /\ written[b][3] # written[b][1]
        /\ resolve_slot(shapes, boxes[b].shape, written[b][3]) = SomeInt(1)

\* C5: transition on a shape that already has the name returns the shape and
\* the name's slot, and the registry it leaves is the registry it found.
C5_TransitionOnExistingName ==
    \A sid \in ShapeIds(shapes) : \A name \in DOMAIN ShapeAt(shapes, sid).slots :
        LET t == transition(shapes, sid, name) IN
        /\ t.sid = sid
        /\ t.slot = ShapeAt(shapes, sid).slots[name]
        /\ t.shapes = shapes

\* The last write was to a name its box already had, in a registry that
\* holds other shapes too.
C5_Witness ==
    /\ lastTrans.how = "slot"
    /\ lastTrans.sid = lastTrans.cur
    /\ Len(shapes) >= 3

\* The shapes of the registry derived from parent p by name s.
Derived(p, s) ==
    {c \in ShapeIds(shapes) :
        ShapeAt(shapes, c).reverse_slots = Append(ShapeAt(shapes, p).reverse_slots, s)}

\* C6: for a parent shape and a name not on it, the registry holds at most one
\* derived shape, and once it holds one, transition returns that shape and its
\* slot and does not grow the registry.
C6_TransitionsDeduplicated ==
    \A p \in ShapeIds(shapes) : \A s \in Syms \ DOMAIN ShapeAt(shapes, p).slots :
        /\ Cardinality(Derived(p, s)) <= 1
        /\ Derived(p, s) # {} =>
              LET t == transition(shapes, p, s) IN
              /\ t.shapes = shapes
              /\ t.sid \in Derived(p, s)
              /\ t.slot = Len(ShapeAt(shapes, p).reverse_slots)

\* The last write took a transition another box had minted before.
C6_Witness ==
    /\ lastTrans.how = "cached"
    /\ lastTrans.cur # EMPTY_SHAPE_INDEX

\* C7: every shape's slot ids are 0..n-1 for its n names, its reverse list has
\* length n and inverts the slot map, resolve_symbol inverts resolve_slot, the
\* shape at index i has id i and the empty shape has id 0.
C7_ShapeWellFormed ==
    /\ ShapeAt(shapes, EMPTY_SHAPE_INDEX).id = 0
    /\ DOMAIN ShapeAt(shapes, EMPTY_SHAPE_INDEX).slots = {}
    /\ \A i \in ShapeIds(shapes) :
          LET sh == ShapeAt(shapes, i)
              n == Cardinality(DOMAIN sh.slots) IN
          /\ sh.id = i
          /\ Range(sh.slots) = 0 .. (n - 1)
          /\ Len(sh.reverse_slots) = n
          /\ \A s \in DOMAIN sh.slots :
                /\ sh.reverse_slots[sh.slots[s] + 1] = s
                /\ resolve_slot(shapes, i, s).some
                /\ resolve_symbol(shapes, i, resolve_slot(shapes, i, s).v) = SomeInt(s)

\* The registry holds both two-name shapes.
C7_Witness ==
    Cardinality({i \in ShapeIds(shapes) :
                    Cardinality(DOMAIN ShapeAt(shapes, i).slots) = 2}) = 2

\* C8 as stated: a transition changes no component of an allocated shape.
C8_ShapeImmutable ==
    [][\A i \in DOMAIN shapes : i \in DOMAIN shapes' /\ shapes'[i] = shapes[i]]_vars

\* C8, amended: a transition changes neither the id, the slot map nor the
\* reverse list of an allocated shape, and its transition map only gains
\* entries: no entry is removed or redirected.
C8_ShapeImmutableButTransitions ==
    [][\A i \in DOMAIN shapes :
          /\ i \in DOMAIN shapes'
          /\ shapes'[i].id = shapes[i].id
          /\ shapes'[i].slots = shapes[i].slots
          /\ shapes'[i].reverse_slots = shapes[i].reverse_slots
          /\ \A s \in DOMAIN shapes[i].transitions :
                /\ s \in DOMAIN shapes'[i].transitions
                /\ shapes'[i].transitions[s] = shapes[i].transitions[s]]_vars

\* A shape was minted from a parent that is not the empty shape, in a registry
\* where the empty shape has both its transitions.
C8_Witness ==
    /\ lastTrans.how = "minted"
    /\ lastTrans.cur # EMPTY_SHAPE_INDEX
    /\ DOMAIN ShapeAt(shapes, EMPTY_SHAPE_INDEX).transitions = Syms

\* C9: the map and the vector of an Interner are mutually inverse: interned
\* strings have equal symbols only if they are equal, resolve inverts intern,
\* lookup agrees with intern, and the ids are exactly 0..count-1.
C9_InternerBijection ==
    /\ \A s \in DOMAIN map :
          /\ map[s] + 1 \in DOMAIN strings
          /\ strings[map[s] + 1] = s
          /\ intern(Interner, s).ok
          /\ resolve(Interner, intern(Interner, s).sym) = [some |-> TRUE, v |-> s]
          /\ lookup(Interner, s) = SomeInt(intern(Interner, s).sym)
    /\ \A s, t \in DOMAIN map :
          (intern(Interner, s).sym = intern(Interner, t).sym) <=> (s = t)
    /\ \A i \in DOMAIN strings :
          /\ strings[i] \in DOMAIN map
          /\ map[strings[i]] = i - 1
    /\ Range(map) = 0 .. (Len(strings) - 1)
    /\ \A p \in issued : p[1] \in DOMAIN map /\ map[p[1]] = p[2]

\* A new name was interned again after another new name had been interned.
C9_Witness ==
    /\ icall.op = "intern" /\ icall.ok
    /\ icall.arg \in NewNames
    /\ icall.sym < Len(strings) - 1
    /\ Len(strings) > Len(WellKnownNames)

InternerNext == [map |-> map', strings |-> strings']

\* C10: a symbol intern has returned for a string keeps resolving to that
\* string, and the string keeps looking up to that symbol, after every later
\* call; lookup and resolve leave the interner as it is.
C10_InternerMonotonic ==
    [][/\ \A p \in issued :
             /\ resolve(InternerNext, p[2]) = [some |-> TRUE, v |-> p[1]]
             /\ lookup(InternerNext, p[1]) = SomeInt(p[2])
       /\ icall'.op \in {"lookup", "resolve"} => (map' = map /\ strings' = strings)
      ]_vars

\* A new name's symbol was resolved after the interner had refused a name at
\* its bound.
C10_Witness ==
    /\ icall.op = "resolve" /\ icall.ok
    /\ icall.ret \in NewNames
    /\ Len(strings) = MaxSymbols
    /\ \E p \in issued : p[2] = icall.sym /\ p[1] = icall.ret

\* C11: an Interner never holds more than MaxSymbols symbols; at the bound,
\* intern of a string not yet interned is Err(TooManySymbols) and leaves the
\* interner as it was, while intern of an interned string still is its symbol.
C11_InternerBounded ==
    /\ Len(strings) <= MaxSymbols
    /\ Cardinality(DOMAIN map) <= MaxSymbols
    /\ \A s \in Names :
          LET r == intern(Interner, s) IN
          /\ (s \notin DOMAIN map /\ Len(strings) >= MaxSymbols)
                => (~r.ok /\ r.in = Interner)
          /\ s \in DOMAIN map
                => (r.ok /\ r.sym = map[s] /\ r.in = Interner)
    /\ (icall.op = "intern" /\ ~icall.ok)
          => (Len(strings) = MaxSymbols /\ icall.arg \notin DOMAIN map)

\* An intern at the bound was refused, and an interned string interns still.
C11_Witness ==
    /\ icall.op = "intern" /\ ~icall.ok
    /\ Len(strings) = MaxSymbols
    /\ \E s \in NewNames : s \in DOMAIN map /\ intern(Interner, s).ok

HasFwd == disp.fwd[1] # "Err"
HasRev == disp.rev[1] # "Err"
FwdCall == OpCall(disp.fwd, INTERNED_OP_IMPL_ADD, disp.rhs)
RevCall == OpCall(disp.rev, INTERNED_OP_IMPL_RADD, disp.lhs)
RevCalled == \E i \in DOMAIN disp.calls : disp.calls[i].sym = INTERNED_OP_IMPL_RADD

\* A call of op declines: it throws an object of the built-in Unimplemented.
Declines(op) ==
    eval(op).kind = "Exception" /\ is_builtin_unimplemented(eval(op).val)
\* A call of op fails: it ends in a VM error or throws anything else.
Fails(op) ==
    \/ eval(op).kind = "Err"
    \/ eval(op).kind = "Exception" /\ ~is_builtin_unimplemented(eval(op).val)
\* A call of op returns an object of the built-in Unimplemented.
ReturnsSentinel(op) ==
    eval(op).kind = "Ok" /\ is_builtin_unimplemented(eval(op).val)
LeftDeclined == ~HasFwd \/ Declines(disp.fwd)

\* C12: a binary operator calls the left operand's _op_impl_add first and a
\* value it returns is the result; it calls the right operand's _op_impl_radd,
\* on the right operand with the left one as argument, only after the left
\* attempt declined or was absent and only for operands of different types;
\* when the types are equal, or the right operand has no reverse method or
\* declines too, the outcome is the error UnexpectedType.
C12_DispatchOrder ==
    disp.done =>
      /\ Len(disp.calls) <= 2
      /\ HasFwd => /\ Len(disp.calls) >= 1
                   /\ disp.calls[1] = FwdCall
                   /\ disp.fwd[3] = disp.lhs
      /\ (HasFwd /\ eval(disp.fwd).kind = "Ok")
           => (disp.out = OutcomeOk(eval(disp.fwd).val) /\ disp.calls = <<FwdCall>>)
      /\ RevCalled => /\ LeftDeclined /\ ~disp.same /\ HasRev
                      /\ disp.calls[Len(disp.calls)] = RevCall
                      /\ disp.rev[3] = disp.rhs
                      /\ \A i \in 1 .. (Len(disp.calls) - 1) :
                           disp.calls[i].sym # INTERNED_OP_IMPL_RADD
      /\ (LeftDeclined /\ ~disp.same /\ HasRev) => RevCalled
      /\ (LeftDeclined /\ ~disp.same /\ HasRev /\ eval(disp.rev).kind = "Ok")
           => disp.out = OutcomeOk(eval(disp.rev).val)
      /\ (LeftDeclined /\ (disp.same \/ ~HasRev \/ Declines(disp.rev)))
           => disp.out = UnexpectedType

\* The left method declined, the types differ and the reverse method, called
\* second, gave the result.
C12_Witness ==
    /\ disp.done /\ HasFwd /\ Declines(disp.fwd) /\ ~disp.same /\ HasRev
    /\ disp.calls = <<FwdCall, RevCall>>
    /\ disp.out = OutcomeOk(IntegerVal("3"))

C14_FailureFallsBack ==
    (disp.done /\ HasFwd /\ Fails(disp.fwd) /\ ~disp.same /\ HasRev)
      => (RevCalled /\ disp.out.val # eval(disp.fwd).val)

\* C14, amended: when the call of the left method fails (a VM error, or an
\* exception other than Unimplemented), that failure is the outcome of the
\* operator and the reverse method is not called, whatever the types.
C14_FailureSurfaced ==
    (disp.done /\ HasFwd /\ Fails(disp.fwd))
      => /\ disp.calls = <<FwdCall>>
         /\ disp.out = IF eval(disp.fwd).kind = "Err"
                       THEN OutcomeError(eval(disp.fwd).val)
                       ELSE OutcomeException(eval(disp.fwd).val)

\* The left method failed although the right operand, of another type, has a
\* reverse method that returns a value.
C14_Witness ==
    /\ disp.done /\ HasFwd /\ Fails(disp.fwd) /\ ~disp.same /\ HasRev
    /\ eval(disp.rev).kind = "Ok"
    /\ disp.out.kind \in {"Error", "Exception"}

EqHasL == eqc.fwd[1] # "Err"
EqHasR == eqc.rev[1] # "Err"
EqLeft == IF EqHasL THEN try_eval_rel_op(eqc.fwd, eqc.rhs) ELSE NeedTryROperator
EqRight == IF EqHasR THEN try_eval_rel_op(eqc.rev, eqc.lhs) ELSE NeedTryROperator
EqLeftCall == OpCall(eqc.fwd, INTERNED_OP_IMPL_EQUALS, eqc.rhs)
EqRightCall == OpCall(eqc.rev, INTERNED_OP_IMPL_EQUALS, eqc.lhs)
EqLeftFailed == EqLeft.kind \in {"Exception", "Error"}

\* Structural equality by variant of the operands of the last comparison:
\* Ints and Floats by value, objects by identity, enum values by enum, case
\* index and payload (as compared during the call), other pairs unequal.
StructuralAsStated(a, b) ==
    CASE Variant(a) \in {"Integer", "Float"} /\ Variant(b) \in {"Integer", "Float"} ->
           raw_value(a) = raw_value(b)
      [] Variant(a) = "Object" /\ Variant(b) = "Object" -> a = b
      [] Variant(a) = "EnumValue" /\ Variant(b) = "EnumValue" ->
           /\ get_container_enum(a) = get_container_enum(b)
           /\ get_case_index(a) = get_case_index(b)
           /\ eqc.payloads
      [] OTHER -> FALSE

\* The same, with an enum value equal to itself whatever its payload.
Structural(a, b) ==
    IF Variant(a) = "EnumValue" /\ a = b THEN TRUE ELSE StructuralAsStated(a, b)

\* The part of the equality protocol the statement and its amendment share:
\* the result is a boolean; the left _op_impl_equals is called first and a
\* boolean it returns is the result; the right one is called last, with the
\* left operand as argument, and only for operands of different types.
EqualsProtocol ==
    /\ eqc.res \in BOOLEAN
    /\ Len(eqc.calls) <= 2
    /\ EqHasL => (Len(eqc.calls) >= 1 /\ eqc.calls[1] = EqLeftCall)
    /\ EqLeft.kind = "Ok" => (eqc.res = (EqLeft.val = BooleanVal(TRUE))
                              /\ eqc.calls = <<EqLeftCall>>)
    /\ Len(eqc.calls) > (IF EqHasL THEN 1 ELSE 0)
         => (~eqc.same /\ EqHasR /\ eqc.calls[Len(eqc.calls)] = EqRightCall)

\* C15 as stated: equality is a boolean; it asks lhs._op_impl_equals, then
\* (only for different types) rhs._op_impl_equals; when both sides decline,
\* are absent or fail, the result is structural equality by variant, enum
\* values being equal exactly when enum, case index and payloads are equal.
C15_EqualsStructuralFallback ==
    eqc.done =>
      /\ EqualsProtocol
      /\ (EqLeft.kind # "Ok" /\ EqRight.kind # "Ok")
           => eqc.res = StructuralAsStated(eqc.lhs, eqc.rhs)

\* C15, amended: as stated, except that an enum value is equal to itself
\* whatever its payload, and that rhs._op_impl_equals is asked only when the
\* left method is absent or declines: when the left call fails, the result
\* is structural equality and the right method is not called.
C15_EqualsStructuralFallbackAmended ==
    eqc.done =>
      /\ EqualsProtocol
      /\ (EqLeft.kind # "Ok" /\ EqRight.kind # "Ok")
           => eqc.res = Structural(eqc.lhs, eqc.rhs)
      /\ EqLeftFailed
           => (eqc.res = Structural(eqc.lhs, eqc.rhs) /\ eqc.calls = <<EqLeftCall>>)
      /\ (EqLeft.kind = "NeedTryROperator" /\ ~eqc.same /\ EqHasR)
           => /\ eqc.calls[Len(eqc.calls)] = EqRightCall
              /\ EqRight.kind = "Ok" => eqc.res = (EqRight.val = BooleanVal(TRUE))
      /\ (EqLeft.kind = "NeedTryROperator" /\ eqc.same)
           => eqc.res = Structural(eqc.lhs, eqc.rhs)

\* Both sides declined and the structural comparison of two distinct enum
\* values with equal payloads gave true.
C15_Witness ==
    /\ eqc.done /\ eqc.lhs = "e1" /\ eqc.rhs = "e1b" /\ eqc.res
    /\ read_attribute(shapes, boxes, "o1", INTERNED_OP_IMPL_EQUALS)[1] # "Err"

\* A value, or the payload of an enum value, has an _op_impl_equals.
DefinesEquals(v) ==
    \/ read_attribute_of(shapes, boxes, v, INTERNED_OP_IMPL_EQUALS)[1] # "Err"
    \/ /\ v \in EnumValues /\ get_payload(v).some
       /\ read_attribute_of(shapes, boxes, get_payload(v).v,
                            INTERNED_OP_IMPL_EQUALS)[1] # "Err"

EqSymmetric ==
    equals(shapes, boxes, eqc.lhs, eqc.rhs).res
      = equals(shapes, boxes, eqc.rhs, eqc.lhs).res

\* C16 as stated: a == b and b == a are the same boolean for all values,
\* values whose types define _op_impl_equals included.
C16_EqualsSymmetric ==
    eqc.done => EqSymmetric

\* C16, amended: a == b and b == a are the same boolean when neither value
\* (nor an enum payload) defines _op_impl_equals, and when the values are of
\* different types and exactly one of them defines it.
C16_EqualsSymmetricBuiltin ==
    (/\ eqc.done
     /\ \/ ~DefinesEquals(eqc.lhs) /\ ~DefinesEquals(eqc.rhs)
        \/ /\ get_type_of(eqc.lhs) # get_type_of(eqc.rhs)
           /\ DefinesEquals(eqc.lhs) # DefinesEquals(eqc.rhs))
      => EqSymmetric

\* A Float without _op_impl_equals was compared with an Int that defines
\* one, and the Int's method gave the result.
C16_Witness ==
    /\ eqc.done /\ eqc.lhs = "x1" /\ eqc.rhs = "n" /\ EqHasR
    /\ eqc.calls = <<EqRightCall>>
    /\ ~eqc.res
    /\ equals(shapes, boxes, "n", "x1").calls = <<OpCall(eqc.rev, INTERNED_OP_IMPL_EQUALS, "x1")>>

\* The exception raised by a Throw or by its unwinding, and the frame it is
\* raised in with the exception popped.
Raised == IF vmstate.status = "unwinding" THEN vmstate.exc ELSE Top.stack[Len(Top.stack)]
RaisedIn ==
    IF vmstate.status = "unwinding" THEN Top
    ELSE [Top EXCEPT !.stack = SubSeq(@, 1, Len(@) - 1)]
InnermostTry == RaisedIn.tries[Len(RaisedIn.tries)]
NoActiveTry == \A i \in 1..Len(frames) : frames[i].tries = <<>>

\* With an active try block in the frame: control is at the catch-pc of the
\* block entered last and not exited, the operand stack has the depth it had
\* at that TryEnter with the exception on top, and the block is left.
Caught ==
    /\ Len(frames') = Len(frames)
    /\ \A i \in 1..(Len(frames) - 1) : frames'[i] = frames[i]
    /\ frames'[Len(frames)].pc = CatchPc(Len(RaisedIn.tries))
    /\ frames'[Len(frames)].pc = InnermostTry.catch_pc
    /\ frames'[Len(frames)].stack = Append(SubSeq(RaisedIn.stack, 1, InnermostTry.sp), Raised)
    /\ Len(frames'[Len(frames)].stack) = InnermostTry.sp + 1
    /\ frames'[Len(frames)].tries = SubSeq(RaisedIn.tries, 1, Len(RaisedIn.tries) - 1)
    /\ vmstate' = Running

\* Without one: the frame is popped and the same exception goes on in the
\* caller; with no caller the run ends as an uncaught exception.
Propagated ==
    /\ frames' = SubSeq(frames, 1, Len(frames) - 1)
    /\ vmstate'.exc = Raised
    /\ vmstate'.status = IF Len(frames) = 1 THEN "uncaught" ELSE "unwinding"

ThrowUnwinds ==
    [][(Throw \/ Rethrow) => IF RaisedIn.tries # <<>> THEN Caught ELSE Propagated]_vars

\* C17: a Throw in a frame with an active try block goes on at the catch-pc of
\* the try block entered last and not yet exited, the operand stack cut to its
\* depth at that TryEnter with the exception on top; without an active try
\* block the frame is popped and the same exception is thrown again in the
\* caller; and an exception unwinding through frames none of which has an
\* active try block ends the run as an uncaught exception.
C17_ThrowUnwinding ==
    /\ ThrowUnwinds
    /\ (vmstate.status = "unwinding" /\ NoActiveTry) ~> (vmstate.status = "uncaught")

\* An exception thrown in a callee without a try block is caught by the inner
\* of the caller's two try blocks, the caller's operand stack cut to one value
\* and the exception.
C17_Witness ==
    /\ vmop = "Rethrow"
    /\ vmstate = Running
    /\ Len(frames) = 1
    /\ Top.pc = CatchPc(2)
    /\ Len(Top.tries) = 1
    /\ Len(Top.stack) = 2

\* The reasons the lifting is documented for.
DocumentedReasons ==
    {"DivisionByZero", "EnumWithoutPayload", "UnexpectedType", "IndexOutOfBounds",
     "NoSuchCase", "NoSuchIdentifier", "OperationFailed", "MismatchedArgumentCount"}

\* The exception holds the RuntimeError case named case_name with the payload
\* of the reason: none, the Int index, the String, or an ArgcMismatch object
\* whose expected and actual are the reason's.
LiftedTo(reason, case_name, str) ==
    LET v == exc.value
        c == RuntimeErrorCases[v.case + 1] IN
    /\ v.variant = "EnumValue"
    /\ v.enumm = "RuntimeError"
    /\ c.name = case_name
    /\ CASE c.payload_type = "" -> v.payload = NoPayload
         [] c.payload_type = "Int" -> v.payload = IntegerPayload(reason.n)
         [] c.payload_type = "String" -> v.payload = StringPayload(str)
         [] OTHER ->
              /\ v.payload.variant = "Object"
              /\ v.payload.str = "ArgcMismatch"
              /\ ObjectBox_read(shapes, v.payload.box, INTERNED_ATTR_EXPECTED)
                   = <<"Integer", ToString(reason.n), "">>
              /\ ObjectBox_read(shapes, v.payload.box, INTERNED_ATTR_ACTUAL)
                   = <<"Integer", ToString(reason.m), "">>
    /\ exc.backtrace = IF excCall.err.loc.some THEN <<excCall.err.loc.v>> ELSE <<>>

\* C18 as stated: from_vmerror lifts the documented reasons, each to its case
\* with its payload and never failing, and returns every other reason
\* unchanged as a VM error.
C18_LiftsExactlyDocumented ==
    excCall.op = "from_vmerror" =>
        LET reason == excCall.err.reason IN
        /\ excCall.ok <=> reason.tag \in DocumentedReasons
        /\ excCall.ok => LiftedTo(reason, reason.tag, reason.str)
        /\ ~excCall.ok => excCall.ret = excCall.err

\* NoSuchSymbol(n, kind) with a symbol the interner resolves.
ResolvedSymbol(reason) ==
    reason.tag = "NoSuchSymbol" /\ resolve(Interner, reason.n).some

\* C18: from_vmerror lifts the documented reasons, each to its case with its
\* payload, MismatchedArgumentCount as long as RuntimeError.ArgcMismatch is
\* the struct; it lifts NoSuchSymbol of a symbol that resolves to
\* NoSuchIdentifier or NoSuchCase with the symbol's name; every other error
\* is returned unchanged.
C18_LiftsDocumentedAndResolved ==
    excCall.op = "from_vmerror" =>
        LET reason == excCall.err.reason
            documented ==
                /\ reason.tag \in DocumentedReasons
                /\ reason.tag = "MismatchedArgumentCount" => excCall.argc = ArgcMismatchStruct IN
        /\ excCall.ok <=> (documented \/ ResolvedSymbol(reason))
        /\ excCall.ok /\ documented => LiftedTo(reason, reason.tag, reason.str)
        /\ excCall.ok /\ ResolvedSymbol(reason) =>
               LiftedTo(reason,
                        IF reason.kind = "Identifier" THEN "NoSuchIdentifier" ELSE "NoSuchCase",
                        resolve(Interner, reason.n).v)
        /\ ~excCall.ok => excCall.ret = excCall.err

\* MismatchedArgumentCount(1, 2) was lifted with a location.
C18_Witness ==
    /\ excCall.op = "from_vmerror"
    /\ excCall.ok
    /\ excCall.err.reason.tag = "MismatchedArgumentCount"
    /\ exc.value.case = RUNTIME_ERR_CASE_MISMATCHED_ARGC_IDX
    /\ Len(exc.backtrace) = 1

\* The Assert instruction pops false.
AssertFails == AssertOp /\ Top.stack[Len(Top.stack)] = "false"

\* C19: an Assert that pops false in a frame with an active try block goes on
\* at the catch-pc of that block, the run not ending with a VM error.
C19_AssertCatchable ==
    [][(AssertFails /\ Top.tries # <<>>) =>
          /\ vmstate'.status = "running"
          /\ frames'[Len(frames)].pc = Top.tries[Len(Top.tries)].catch_pc]_vars

\* thrown_at is a step of the exception.
ThrownAtStep == \E loc \in Locs : ThrownAt(loc)

\* C20: thrown_at leaves a backtrace at least as long as before, the entries
\* it had unchanged and in their order, and the value unchanged.
C20_BacktraceGrows ==
    [][ThrownAtStep =>
          /\ Len(exc'.backtrace) >= Len(exc.backtrace)
          /\ SubSeq(exc'.backtrace, 1, Len(exc.backtrace)) = exc.backtrace
          /\ exc'.value = exc.value]_vars

\* A backtrace of two different locations after thrown_at.
C20_Witness ==
    /\ excCall.op = "thrown_at"
    /\ Len(exc.backtrace) = 2
    /\ exc.backtrace[1] # exc.backtrace[2]

\* C21: an entry that thrown_at appends is a source pointer that the
\* backtrace did not hold before (no source pointer is in a backtrace twice).
C21_AppendedEntryDistinct ==
    [][(ThrownAtStep /\ Len(exc'.backtrace) > Len(exc.backtrace)) =>
          \A i \in 1..Len(exc.backtrace) :
              exc.backtrace[i] # exc'.backtrace[Len(exc'.backtrace)]]_vars

\* The witness of a name a module binds.
Witness(m, n) == mods[m][n].ty

\* C22: store_typechecked_named_value(name, v) on a name with witness T
\* fails with UnexpectedType when v does not satisfy T and then leaves the
\* value and the witness as they were; otherwise it succeeds, the name reads
\* back as v and its witness is still T.
C22_TypecheckedStore ==
    [][\A m \in ModIds, n \in ModNames, v \in ModVals :
         (n \in DOMAIN mods[m] /\ StoreTypechecked(m, n, v)) =>
            IF isa_check(Witness(m, n), v)
            THEN /\ modCall'.ok
                 /\ load_named_value(mods'[m], n) = [some |-> TRUE, v |-> v]
                 /\ mods'[m][n].ty = Witness(m, n)
            ELSE /\ ~modCall'.ok
                 /\ modCall'.err = "UnexpectedType"
                 /\ mods' = mods]_vars

\* A typechecked store was refused: the value does not satisfy the witness.
C22_Witness ==
    /\ modCall.op = "store_typechecked"
    /\ ~modCall.ok
    /\ modCall.err = "UnexpectedType"
    /\ modCall.name \in DOMAIN mods[modCall.mod]
    /\ Witness(modCall.mod, modCall.name) = "Int"

\* C23: once a name has a witness T, an assignment through a module
\* operation (typechecked store, store_named_value, attribute write on the
\* module value, lift) leaves the name with a value that satisfies T, or
\* leaves its value as it was.
C23_WitnessGuardsEveryAssignment ==
    [][\A m \in ModIds, n \in ModNames :
         (n \in DOMAIN mods[m] /\ modCall'.op \in {"store_typechecked", "store_named", "write_attribute", "lift"}
            /\ mods'[m][n].val # mods[m][n].val)
         => isa_check(Witness(m, n), mods'[m][n].val)]_vars

\* C24: when dst declares n with witness T and the lifted module binds n to
\* a value that does not satisfy T, lift_all_symbols_from_other fails with
\* UnexpectedType and dst keeps T and its previous value for n.
C24_LiftRespectsWitness ==
    [][\A m \in ModIds, src \in ModIds, n \in ModNames :
         (/\ src # m
          /\ n \in DOMAIN mods[m]
          /\ n \in DOMAIN mods[src]
          /\ ~isa_check(Witness(m, n), mods[src][n].val)
          /\ modCall'.op = "lift" /\ modCall'.mod = m /\ modCall'.src = src)
         => /\ ~modCall'.ok
            /\ modCall'.err = "UnexpectedType"
            /\ mods'[m][n] = mods[m][n]]_vars

\* C25: after a successful lift every name bound in src is bound in dst to
\* the same value with the same witness as in src, the other names of dst
\* keep their value and witness, and src is unchanged.
C25_LiftCopiesBindings ==
    [][\A m \in ModIds, src \in ModIds :
         (modCall'.op = "lift" /\ modCall'.mod = m /\ modCall'.src = src /\ modCall'.ok
            /\ Lift(m, src))
         => /\ DOMAIN mods'[m] = DOMAIN mods[m] \cup DOMAIN mods[src]
            /\ \A n \in DOMAIN mods[src] : mods'[m][n] = mods[src][n]
            /\ \A n \in DOMAIN mods[m] \ DOMAIN mods[src] : mods'[m][n] = mods[m][n]
            /\ mods'[src] = mods[src]]_vars

\* A lift into another module succeeded: it brought a binding whose witness
\* is not any, next to a name the lifted module does not bind.
C25_Witness ==
    /\ modCall.op = "lift" /\ modCall.ok /\ modCall.mod # modCall.src
    /\ \E n \in DOMAIN mods[modCall.src] :
         /\ mods[modCall.src][n].ty # "Any"
         /\ mods[modCall.mod][n] = mods[modCall.src][n]
    /\ DOMAIN mods[modCall.mod] # DOMAIN mods[modCall.src]

\* A read_opcode has returned.
HasRead == dec # NoDecode

\* The bytes of the stream after the tag of the last read_opcode, the tag
\* itself and whether read_opcode has an arm for it.
AfterTag == Len(rdr.data) - dec.start - 1
TagRead == rdr.data[dec.start + 1]
KnownTag == TagRead + 1 \in DOMAIN OpTable
KindRead == OpTable[TagRead + 1][2]

\* The bytes the arm of a kind reads after the tag.
OperandBytes(kind) ==
    CASE kind = "none" -> 0
      [] kind = "u16" -> 2
      [] kind = "u32" -> 4
      [] kind = "u8u16" -> 3
      [] OTHER -> 1

\* The last read_opcode read the operand of PushBuiltinTy or PushRuntimeValue
\* and try_from refused it.
BadOperand ==
    /\ KindRead \in {"builtin_type", "runtime_value"}
    /\ AfterTag >= 1
    /\ rdr.data[dec.start + 2] \notin
         (IF KindRead = "builtin_type" THEN BuiltinTypeIds ELSE BuiltinValueIds)

\* C27: read_opcode returns EndOfStream exactly when the position is at or
\* past the end before a tag is read, InsufficientData when a known tag is
\* followed by too few bytes, UnknownOpcode(tag) for a tag without an arm and
\* UnknownOperand(tag, value) for an invalid builtin type or runtime value
\* id; the decode loop of the loader accepts a stream exactly when it ends
\* in EndOfStream.
C27_DecodeErrors ==
    HasRead =>
      /\ (dec.err = "EndOfStream") <=> (dec.start >= Len(rdr.data))
      /\ dec.start < Len(rdr.data) =>
           /\ (dec.err = "UnknownOpcode") <=> ~KnownTag
           /\ dec.err = "UnknownOpcode" => dec.tag = TagRead
           /\ KnownTag =>
                /\ (dec.err = "InsufficientData") <=> (AfterTag < OperandBytes(KindRead))
                /\ (dec.err = "UnknownOperand") <=> BadOperand
                /\ dec.err = "UnknownOperand" =>
                     dec.tag = TagRead /\ dec.val = rdr.data[dec.start + 2]
      /\ (decoded.status = "accepted") <=> (dec.err = "EndOfStream")
      /\ (decoded.status = "rejected") <=> (~dec.ok /\ dec.err # "EndOfStream")
      /\ (decoded.status = "reading") <=> dec.ok

\* The loader refused a stream whose last opcode has its u8 operand and one
\* byte of its u16 operand.
C27_Witness ==
    /\ HasRead
    /\ decoded.status = "rejected"
    /\ dec.err = "InsufficientData"
    /\ KindRead = "u8u16"
    /\ AfterTag = 2

\* The operands of the opcode inventory: the opcodes with one u8 operand
\* (without the indexing opcodes, which the inventory lists bare), with one
\* u16, with one u32 and with a u8 and a u16; every other opcode has none.
InventoryU8 ==
    {"PushBuiltinTy", "PushRuntimeValue", "Copy", "ReadLocal", "WriteLocal",
     "TypedefLocal", "ReadUplevel", "StoreUplevel", "Call", "BuildFunction",
     "TryUnwrapProtocol"}
InventoryU16 ==
    {"Push", "ReadNamed", "WriteNamed", "TypedefNamed", "ReadAttribute",
     "WriteAttribute", "Jump", "JumpTrue", "JumpFalse", "TryEnter", "Assert",
     "EnumCheckIsCase", "Import", "LoadDylib"}
InventoryU32 == {"ReadAttributeSymbol", "WriteAttributeSymbol", "BuildList"}
InventoryU8U16 == {"JumpIfArgSupplied", "BindMethod", "BindCase", "NewEnumVal"}

\* The last read_opcode succeeded, consumed the tag and the operands of its
\* opcode, u8names being the opcodes with one u8 operand, and read every
\* operand least significant byte first.
ConsumedAsListed(u8names) ==
    LET name == dec.op.op
        s == dec.start
        d == rdr.data IN
    CASE name \in u8names ->
           rdr.idx = s + 2 /\ dec.op.a = d[s + 2] /\ dec.op.b = 0
      [] name \in InventoryU16 ->
           rdr.idx = s + 3 /\ dec.op.a = d[s + 2] + 256 * d[s + 3] /\ dec.op.b = 0
      [] name \in InventoryU32 ->
           /\ rdr.idx = s + 5
           /\ dec.op.a = d[s + 2] + 256 * d[s + 3]
           /\ dec.op.b = d[s + 4] + 256 * d[s + 5]
      [] name \in InventoryU8U16 ->
           rdr.idx = s + 4 /\ dec.op.a = d[s + 2] /\ dec.op.b = d[s + 3] + 256 * d[s + 4]
      [] OTHER -> rdr.idx = s + 1 /\ dec.op.a = 0 /\ dec.op.b = 0

\* C28: a successful read_opcode consumes one tag byte and the operands the
\* inventory lists for the opcode (none for ReadIndex, WriteIndex, Add and
\* Return), each operand least significant byte first.
C28_ConsumesInventory ==
    (HasRead /\ dec.ok) => ConsumedAsListed(InventoryU8)

\* C28, amended: ReadIndex and WriteIndex have one u8 operand.
C28_ConsumesInventoryWithIndexOperand ==
    (HasRead /\ dec.ok) => ConsumedAsListed(InventoryU8 \cup {"ReadIndex", "WriteIndex"})

\* read_opcode returned ReadIndex and has consumed its tag and its operand.
C28_Witness ==
    /\ HasRead /\ dec.ok
    /\ dec.op.op = "ReadIndex"
    /\ rdr.idx = dec.start + 2

\* The code-object bodies of a compiled module, entry first, and of the
\* module loaded from it, as opcodes.
CompiledBodiesOf(cm) ==
    <<cm.entry>> \o
    SelectSeq([i \in 1..Len(cm.constants) |->
                 IF cm.constants[i].kind = "CodeObject" THEN cm.constants[i].body ELSE <<>>],
              LAMBDA b : b # <<>>)
LoadedBodies ==
    <<rmod.entry>> \o
    SelectSeq([i \in 1..Len(rmod.constants) |->
                 IF rmod.constants[i].kind = "CodeObject" THEN rmod.constants[i].body ELSE <<>>],
              LAMBDA b : b # <<>>)

\* The opcode lowered stands where the compiled opcode op stood: an attribute
\* access by constant became the access by the symbol that resolves to the
\* string constant, every other opcode is as it was.
LoweredFrom(op, lowered) ==
    IF op.op \in {"ReadAttribute", "WriteAttribute"}
    THEN /\ lowered.op = (IF op.op = "ReadAttribute" THEN "ReadAttributeSymbol"
                          ELSE "WriteAttributeSymbol")
         /\ op.a < Len(cmod.constants)
         /\ resolve(Interner, lowered.a) = [some |-> TRUE, v |-> cmod.constants[op.a + 1].str]
    ELSE lowered = op

HasSymbolOpcode(d) ==
    d.ok /\ \E i \in DOMAIN d.opcodes :
              d.opcodes[i].op \in {"ReadAttributeSymbol", "WriteAttributeSymbol"}

\* C26: after RuntimeModule::new succeeds no code-object body, entry or
\* constant, contains ReadAttribute or WriteAttribute: each was replaced in
\* place, at the same index, by the symbol opcode whose symbol resolves to
\* the string constant; a compiled body that already contains a symbol
\* opcode makes the load fail.
C26_AttributeAccessLowered ==
    /\ rmod.status = "ok" =>
         /\ Len(LoadedBodies) = Len(CompiledBodiesOf(cmod))
         /\ \A k \in DOMAIN LoadedBodies :
              LET compiled == byte_array_to_opcode_array(CompiledBodiesOf(cmod)[k]).opcodes
                  loaded == LoadedBodies[k] IN
              /\ Len(loaded) = Len(compiled)
              /\ \A i \in DOMAIN loaded :
                   /\ loaded[i].op \notin {"ReadAttribute", "WriteAttribute"}
                   /\ LoweredFrom(compiled[i], loaded[i])
    /\ (rmod.status # "none"
          /\ \E k \in DOMAIN CompiledBodiesOf(cmod) :
               HasSymbolOpcode(byte_array_to_opcode_array(CompiledBodiesOf(cmod)[k])))
       => rmod.status # "ok"

\* A module was loaded whose constant code object writes an attribute: the
\* loaded body has the symbol opcode in its place.
C26_Witness ==
    /\ rmod.status = "ok"
    /\ Len(LoadedBodies) = 2
    /\ \E i \in DOMAIN LoadedBodies[2] : LoadedBodies[2][i].op = "WriteAttributeSymbol"
    /\ \E i \in DOMAIN LoadedBodies[1] : LoadedBodies[1][i].op = "ReadAttributeSymbol"

\* The code of the expression has run to its end block.
UnwrapDone == uw.block = "try_unwrap_end"

\* C29: `left ?? right` evaluates to x, without evaluating right, when left
\* yields Ok(x), and to the value of right when left yields Err(e); either
\* way the operand stack ends exactly one deeper than it began, and right
\* runs on the stack as it was before the expression (the flag was consumed
\* by the conditional jump and the value under the false flag was popped).
C29_TryUnwrapOrElse ==
    /\ UnwrapDone =>
         /\ uw.stack = Append(uw.base,
                              IF uw.left[1] = "Ok" THEN StackValue("Int", uw.left[2])
                              ELSE uw.right)
         /\ uw.rightRan <=> uw.left[1] = "Err"
    /\ uw.rightRan => uw.atRight = uw.base

\* Left yielded Err(e) on a stack that was not empty, and the expression has
\* the value of right, which differs from e.
C29_Witness ==
    /\ UnwrapDone
    /\ uw.left[1] = "Err"
    /\ uw.right[2] # uw.left[2]
    /\ Len(uw.base) = MaxBase
    /\ TopOf(uw.stack) = uw.right

\* The read that led to the next state found no slot through the sidecar
\* and resolved the attribute to a slot: a miss.
SiteMissed ==
    /\ site' # site
    /\ ~(sidecar.present
         /\ read_slot(boxes, site'.recv, sidecar.slot_id, sidecar.shape_id) # None)
    /\ resolve_to_slot(shapes, boxes, site'.recv, SiteSym).some

C31_NoStoreWriteFails ==
    [][(lastWrite' # lastWrite /\ ~has_attribute_store(lastWrite'.recv)) =>
          /\ ~lastWrite'.ok
          /\ lastWrite'.err = <<"UnexpectedType", 0>>
          /\ shapes' = shapes
          /\ boxes' = boxes]_vars

\* A write to the bound function of o1 has failed after o1 got an attribute.
C31_Witness ==
    /\ lastWrite.done /\ ~lastWrite.ok
    /\ lastWrite.recv = "bf"
    /\ lastWrite.err = <<"UnexpectedType", 0>>
    /\ Len(boxes["o1"].slots) = 1

\* The symbol occurs in the sequence of symbols written to a receiver.
WrittenTo(r, s) == \E i \in DOMAIN written[r] : written[r][i] = s

\* C32: read_attribute(o, s) on an object returns the value of o's own slot
\* when o has s: a write to o.s reads back from o, and a write of s to the
\* member table of o's struct does not change what o.s reads when o has s.
\* Only when o has no s does the read come from the struct's member table,
\* and when s was written to neither the read fails with
\* NoSuchIdentifier(s).
C32_LookupOrder ==
    [][\A s \in Syms :
          LET before == read_attribute(shapes, boxes, "o1", s)
              after == read_attribute(shapes', boxes', "o1", s)
              wrote == lastWrite'.done /\ lastWrite'.ok /\ lastWrite'.sym = s IN
          /\ (~WrittenTo("o1", s)' /\ ~WrittenTo("S", s)') =>
                 /\ after[1] = "Err"
                 /\ AttributeError_to_vm_error_reason(after[2], s)
                        = <<"NoSuchIdentifier", s>>
          /\ (wrote /\ lastWrite'.recv = "o1") => after = lastWrite'.val
          /\ (wrote /\ lastWrite'.recv = "S" /\ WrittenTo("o1", s)) =>
                 after = before
          /\ (wrote /\ lastWrite'.recv = "S" /\ ~WrittenTo("o1", s)) =>
                 after = val_or_bound_func(lastWrite'.val, "o1")]_vars

\* The object and its struct both have msg, with different values, and the
\* read of the object's msg returns the object's own value.
C32_Witness ==
    /\ WrittenTo("o1", INTERNED_ATTR_MSG) /\ WrittenTo("S", INTERNED_ATTR_MSG)
    /\ lastWrite.recv = "S" /\ lastWrite.sym = INTERNED_ATTR_MSG
    /\ lastWrite.val = IntegerVal("2")
    /\ read_attribute(shapes, boxes, "o1", INTERNED_ATTR_MSG) = IntegerVal("1")
    /\ read_attribute(shapes, boxes, "o1", INTERNED_ATTR_NEXT) = Err("NoSuchAttribute")

\* C33 as stated: when read_attribute on an object resolves the name in the
\* member table of the object's struct and the value there is a function, the
\* result is that function bound to the object; a value that is not a
\* function is returned as it is.
C33_AutoBinding ==
    \A s \in Syms :
        (lastWrite.done /\ lastWrite.ok /\ lastWrite.recv = "S"
            /\ lastWrite.sym = s /\ ~WrittenTo("o1", s)) =>
            read_attribute(shapes, boxes, "o1", s)
                = IF lastWrite.val[1] = "Function"
                  THEN <<"BoundFunction", lastWrite.val[2], "o1">>
                  ELSE lastWrite.val

\* C33, amended: a function of the struct's member table that is not a type
\* method is returned bound to the object, a type method makes the read fail
\* with InvalidBinding, and a value that is not a function is returned as it
\* is.
C33_AutoBindingOfInstanceMethods ==
    \A s \in Syms :
        (lastWrite.done /\ lastWrite.ok /\ lastWrite.recv = "S"
            /\ lastWrite.sym = s /\ ~WrittenTo("o1", s)) =>
            LET res == read_attribute(shapes, boxes, "o1", s) IN
            IF lastWrite.val[1] # "Function" THEN res = lastWrite.val
            ELSE IF is_type_method(lastWrite.val)
            THEN /\ res[1] = "Err"
                 /\ AttributeError_to_vm_error_reason(res[2], s)
                        = <<"InvalidBinding", 0>>
            ELSE res = <<"BoundFunction", lastWrite.val[2], "o1">>

\* An instance method of the struct is read through the object, which has
\* another attribute of its own.
C33_Witness ==
    /\ lastWrite.done /\ lastWrite.ok /\ lastWrite.recv = "S"
    /\ lastWrite.sym = INTERNED_ATTR_NEXT
    /\ lastWrite.val = FunctionVal("instance")
    /\ WrittenTo("o1", INTERNED_ATTR_MSG) /\ ~WrittenTo("o1", INTERNED_ATTR_NEXT)
    /\ read_attribute(shapes, boxes, "o1", INTERNED_ATTR_NEXT)
           = <<"BoundFunction", "instance", "o1">>

\* The constants INTERNED_* of symbol.rs: the id each well-known name is
\* declared to have.
InternedConstants ==
    ("_op_impl_call" :> 0) @@ ("_op_impl_equals" :> 1)
    @@ ("_op_impl_read_index" :> 2) @@ ("_op_impl_write_index" :> 3)
    @@ ("_op_impl_add" :> 4) @@ ("_op_impl_radd" :> 5)
    @@ ("_op_impl_sub" :> 6) @@ ("_op_impl_rsub" :> 7)
    @@ ("_op_impl_mul" :> 8) @@ ("_op_impl_rmul" :> 9)
    @@ ("_op_impl_div" :> 10) @@ ("_op_impl_rdiv" :> 11)
    @@ ("_op_impl_rem" :> 12) @@ ("_op_impl_rrem" :> 13)
    @@ ("_op_impl_lshift" :> 14) @@ ("_op_impl_rlshift" :> 15)
    @@ ("_op_impl_rshift" :> 16) @@ ("_op_impl_rrshift" :> 17)
    @@ ("_op_impl_bwand" :> 18) @@ ("_op_impl_rbwand" :> 19)
    @@ ("_op_impl_bwor" :> 20) @@ ("_op_impl_rbwor" :> 21)
    @@ ("_op_impl_xor" :> 22) @@ ("_op_impl_rxor" :> 23)
    @@ ("_op_impl_lt" :> 24) @@ ("_op_impl_gt" :> 25)
    @@ ("_op_impl_lteq" :> 26) @@ ("_op_impl_gteq" :> 27)
    @@ ("_op_impl_neg" :> 28) @@ ("prettyprint" :> 29)
    @@ ("backtrace" :> 30) @@ ("__impl" :> 31) @@ ("next" :> 32)
    @@ ("msg" :> 33) @@ ("ArgcMismatch" :> 34) @@ ("stdout" :> 35)
    @@ ("stderr" :> 36) @@ ("expected" :> 37) @@ ("actual" :> 38)
    @@ ("Varargs" :> 39) @@ ("Bounded" :> 40)

\* Every well-known name has its declared id in the interner in.
HasInternedConstants(in) ==
    \A n \in DOMAIN InternedConstants :
        /\ n \in DOMAIN in.map
        /\ in.map[n] = InternedConstants[n]
        /\ resolve(in, InternedConstants[n]) = [some |-> TRUE, v |-> n]

\* C34: a freshly constructed Interner has the well-known names at the ids
\* of the constants (_op_impl_call = 0 ... Bounded = 40), no call changes
\* these ids, and the first string a program interns that is not a well-known
\* name gets the id after the reserved prefix, 41.
C34_WellKnownIdsFixed ==
    [][/\ HasInternedConstants(Interner)
       /\ HasInternedConstants(InternerNext)
       /\ Cardinality(DOMAIN InternedConstants) = Len(InternerDefault.strings)
       /\ (icall'.op = "intern" /\ icall'.arg \notin DOMAIN map
             /\ issued \subseteq {p \in issued : p[1] \in DOMAIN InternedConstants})
             => /\ icall'.ok
                /\ icall'.sym = InternedConstants["Bounded"] + 1
                /\ resolve(InternerNext, icall'.sym) = [some |-> TRUE, v |-> icall'.arg]
      ]_vars

\* A program has interned the well-known msg, then its first new name, and
\* msg again.
C34_Witness ==
    /\ icall.op = "intern" /\ icall.ok
    /\ icall.arg = "msg" /\ icall.sym = 33
    /\ Len(strings) = Len(WellKnownNames) + 1
    /\ \E p \in issued : p[1] \in NewNames /\ p[2] = 41

\* ObjectBox::list_attributes: the assert_eq! on the number of slots holds.
list_attributes_asserts(shs, box) ==
    box.shape \in ShapeIds(shs) =>
        Len(box.slots) = Len(ShapeAt(shs, box.shape).reverse_slots)

\* C35: after any sequence of writes to the boxes that share the registry (of
\* an object, the Int's side box, a list, a type's member table, a mixin, a
\* function), the slot vector of every box is as long as the slot map of its
\* shape; no write has reached, and no next write reaches, the "slots should
\* grow sequentially" panic, and the assertion of list_attributes holds.
C35_SlotsMatchShape ==
    /\ \A b \in Receivers :
          /\ boxes[b].shape \in ShapeIds(shapes)
          /\ Len(boxes[b].slots)
                = Cardinality(DOMAIN ShapeAt(shapes, boxes[b].shape).slots)
          /\ list_attributes_asserts(shapes, boxes[b])
          /\ \A s \in Syms : ~ObjectBox_write(shapes, boxes[b], s, None).panic
    /\ ~lastWrite.panic

\* The Int's side box and the list hold one attribute each, of different
\* names, written one after the other.
C35_Witness ==
    /\ Len(boxes["n"].slots) = 1 /\ Len(boxes["l"].slots) = 1
    /\ boxes["n"].shape # boxes["l"].shape
    /\ lastWrite.done /\ lastWrite.ok /\ ~lastWrite.panic

\* C36: a write of attribute s on box o changes only o's value for s, and o's
\* shape when s is new to o: every other attribute of o reads back as before,
\* and every other box, the boxes that had o's shape included, keeps its shape
\* id, its slots and what each of its attributes reads.
C36_WriteFrame ==
    [][(lastWrite'.done /\ lastWrite'.ok) =>
          LET o == lastWrite'.recv
              s == lastWrite'.sym IN
          /\ ObjectBox_read(shapes', boxes'[o], s) = lastWrite'.val
          /\ \A t \in Syms \ {s} :
                ObjectBox_read(shapes', boxes'[o], t)
                    = ObjectBox_read(shapes, boxes[o], t)
          /\ ObjectBox_read(shapes, boxes[o], s) # None
                => boxes'[o].shape = boxes[o].shape
          /\ \A b \in Receivers \ {o} :
                /\ boxes'[b] = boxes[b]
                /\ \A t \in Syms :
                      ObjectBox_read(shapes', boxes'[b], t)
                          = ObjectBox_read(shapes, boxes[b], t)]_vars

\* The two objects had the same one-name shape with different values, and the
\* first was written a second name: it moved to another shape and the second
\* kept its shape and its value.
C36_Witness ==
    /\ lastWrite.done /\ lastWrite.ok /\ lastWrite.recv = "o1"
    /\ lastWrite.sym = INTERNED_ATTR_NEXT
    /\ written["o1"] = <<INTERNED_ATTR_MSG, INTERNED_ATTR_NEXT>>
    /\ written["o2"] = <<INTERNED_ATTR_MSG>>
    /\ boxes["o1"].shape # boxes["o2"].shape
    /\ SlotGet(boxes["o1"], 0) # SlotGet(boxes["o2"], 0)
    /\ Len(boxes["o2"].slots) = 1

\* The types reachable from the types of S through include lists.
RECURSIVE IncludeClosure(_, _)
IncludeClosure(incl, S) ==
    LET n == S \cup UNION {Range(incl[x]) : x \in S} IN
    IF n = S THEN S ELSE IncludeClosure(incl, n)

\* The type t defines the name: its own member table has it, or the member
\* table of a mixin it includes, directly or through includes.
Defines(t, s) ==
    \E x \in IncludeClosure(includes, {t}) :
        ObjectBox_read(mshapes, entries[x], s) # None

\* The greatest element of a non-empty set of numbers.
MaxOf(S) == CHOOSE x \in S : \A y \in S : y <= x

\* What the precedence of C37 says load_named_value(t, s) returns, res being
\* what it returned.
PrecedenceHolds(t, s, res) ==
    LET w == MixWorld(mshapes, entries, includes)
        own == ObjectBox_read(mshapes, entries[t], s)
        defining == {i \in DOMAIN includes[t] : Defines(includes[t][i], s)} IN
    /\ own # None => res = own
    /\ (own = None /\ defining # {}) =>
          /\ res \notin {None, Overflow}
          /\ res = Mixin_load_named_value(w, includes[t][MaxOf(defining)], s,
                                          StackDepth)

\* C37: the member table of a type shadows the mixins the type includes, and
\* among the included mixins the one included last that defines the name,
\* directly or through its own includes, is the one whose value
\* load_named_value returns.
C37_MixinPrecedence ==
    \A t \in MixTypes : \A s \in Syms :
        PrecedenceHolds(t, s,
            Type_load_named_value(MixWorld(mshapes, entries, includes), t, s))

\* The precedence holds of every lookup that returns.
PrecedenceOfReturnedLookups ==
    \A t \in MixTypes : \A s \in Syms :
        LET res == Type_load_named_value(MixWorld(mshapes, entries, includes), t, s) IN
        res # Overflow => PrecedenceHolds(t, s, res)

\* The enum includes both mixins, both bind msg, and the lookup on the enum
\* returns the value of the mixin included last.
PrecedenceSeen ==
    /\ includes[MixEnum] = <<"A", "B">>
    /\ includes["A"] = <<>> /\ includes["B"] = <<>>
    /\ ObjectBox_read(mshapes, entries["A"], MixSym) = IntegerVal("1")
    /\ ObjectBox_read(mshapes, entries["B"], MixSym) = IntegerVal("2")
    /\ Type_load_named_value(MixWorld(mshapes, entries, includes), MixEnum, MixSym)
          = IntegerVal("2")

\* C38: after any sequence of include_mixin calls, a mixin made to include
\* itself and two mixins that include each other among them,
\* load_named_value of a name that is bound nowhere returns None and
\* isa_mixin of a mixin that is not reachable through includes returns false.
C38_MixinQueriesTerminate ==
    \A t \in MixTypes :
        /\ Type_load_named_value(MixWorld(mshapes, entries, includes), t,
                                 INTERNED_ATTR_NEXT) = None
        /\ \A m \in MixinNames :
              m \notin IncludeClosure(includes, {t})
                  => Type_isa_mixin(includes, t, m) = "false"

\* DistinctBefore for the case names of an enum: the index of the case.
CaseRank(e, i) == DistinctBefore(added[e], i - 1)

\* The case table of enum en, with registry shs, agrees with the names added.
CaseTableConsistent(shs, en, names) ==
    /\ en.case_shape \in ShapeIds(shs)
    /\ Len(en.cases) = Cardinality(DOMAIN ShapeAt(shs, en.case_shape).slots)
    /\ \A i \in DOMAIN names :
          LET idx == get_idx_of_case_by_symbol(shs, en, names[i]) IN
          /\ idx.some
          /\ get_case_by_idx(en, idx.v).some
          /\ get_case_by_idx(en, idx.v).v.name = names[i]
          /\ FirstOccurrence(names, i) => idx.v = DistinctBefore(names, i - 1)

\* C39: after any sequence of add_case calls on enums that share the
\* registry, the case list of an enum is as long as the slot map of its case
\* shape, get_idx_of_case_by_symbol(n) is an index whose case has the name n
\* for every added n, the index of a case is the number of distinct names
\* added before it, and an add_case of a name the enum has puts the new case
\* at that name's index, returns it, and changes no index and no other case.
C39_CaseTableConsistent ==
    [][/\ \A e \in Enums : CaseTableConsistent(cshapes', enums'[e], added'[e])
       /\ (ecall'.op = "add_case" /\ added' # added) =>
             LET e == ecall'.enumm
                 old == get_idx_of_case_by_symbol(cshapes, enums[e], ecall'.name) IN
             /\ ecall'.some
             /\ get_idx_of_case_by_symbol(cshapes', enums'[e], ecall'.name)
                   = SomeInt(ecall'.cidx)
             /\ \A n \in CaseSyms \ {ecall'.name} :
                   /\ get_idx_of_case_by_symbol(cshapes', enums'[e], n)
                         = get_idx_of_case_by_symbol(cshapes, enums[e], n)
             /\ \A i \in DOMAIN enums[e].cases :
                   i # ecall'.cidx + 1 => enums'[e].cases[i] = enums[e].cases[i]
             /\ old.some =>
                   /\ ecall'.cidx = old.v
                   /\ Len(enums'[e].cases) = Len(enums[e].cases)
                   /\ enums'[e].case_shape = enums[e].case_shape
             /\ \A d \in Enums \ {e} : enums'[d] = enums[d]]_vars

\* An enum with two cases was added its first case again, with another
\* payload type: the case is replaced at index 0.
C39_Witness ==
    /\ ecall.op = "add_case" /\ ecall.enumm = "E" /\ ecall.cidx = 0
    /\ added["E"] = <<INTERNED_CASE_VARARGS, INTERNED_CASE_BOUNDED, INTERNED_CASE_VARARGS>>
    /\ Len(enums["E"].cases) = 2
    /\ enums["E"].cases[1] = EnumCase(INTERNED_CASE_VARARGS, "Int")
    /\ enums["E"].cases[2].name = INTERNED_CASE_BOUNDED

\* C40: make_value(cidx, payload) is an enum value exactly when the enum has
\* a case at cidx and a payload is supplied if and only if that case declares
\* a payload type; the value reports the enum, cidx and the payload given;
\* otherwise the call is None.
C40_MakeValue ==
    ecall.op = "make_value" =>
        LET en == enums[ecall.enumm]
            exists == ecall.cidx + 1 \in DOMAIN en.cases IN
        /\ ecall.some <=>
              (exists /\ ((en.cases[ecall.cidx + 1].payload_type # "")
                             <=> ecall.payload.some))
        /\ ecall.some =>
              /\ EnumValue_get_container_enum(ecall.val) = ecall.enumm
              /\ EnumValue_get_case_index(ecall.val) = ecall.cidx
              /\ EnumValue_get_payload(ecall.val) = ecall.payload
        /\ ~ecall.some => ecall.val = NoEnumValue

\* A value of the second case of an enum, which declares a payload, was made
\* with a payload.
C40_Witness ==
    /\ ecall.op = "make_value" /\ ecall.some
    /\ ecall.cidx = 1 /\ ecall.payload = SomeEnumPayload("p")
    /\ enums[ecall.enumm].cases[2].payload_type = "Int"
    /\ enums[ecall.enumm].cases[1].payload_type = ""
    /\ ecall.val = EnumValueImpl(ecall.enumm, 1, SomeEnumPayload("p"))

====
